---- MODULE Spec2Model ----
(***************************************************************************)
(* Workflow dependency sorter of src/test_workflow_sorting.py:            *)
(* get_sorted_workflow_nodes, run step by step on one workflow.            *)
(*                                                                         *)
(* Strings that the code compares or converts (node ids) are sequences of  *)
(* character codes, so that sorted() and str() are computed, not assumed.  *)
(* Opaque labels (class_type, title) are TLA+ strings.                     *)
(***************************************************************************)
EXTENDS Integers, Sequences, FiniteSets, TLC

\* ------------------------------------------------------------------ bounds
\* Largest number of entries of a generated workflow.
MaxNodes == 3
\* Largest number of list-valued inputs in a generated graph workflow.
MaxRefs == 2

\* ----------------------------------------------------------- python values
\* Code of the character "0".
Ord0 == 48

RECURSIVE Str(_)
\* str(n) of a non-negative int: its decimal digits.
Str(n) == IF n < 10 THEN <<Ord0 + n>> ELSE Str(n \div 10) \o <<Ord0 + (n % 10)>>

RECURSIVE LexLess(_, _)
\* a < b on python strings: lexicographic by code point.
LexLess(a, b) ==
    IF b = <<>> THEN FALSE
    ELSE IF a = <<>> THEN TRUE
    ELSE IF Head(a) # Head(b) THEN Head(a) < Head(b)
    ELSE LexLess(Tail(a), Tail(b))

\* An element of a list input value: a str or an int.
StrElem(s) == [isStr |-> TRUE, s |-> s, n |-> 0]
IntElem(n) == [isStr |-> FALSE, s |-> <<>>, n |-> n]

\* A list element taken as an id without str(): an int names no key.
StrOf_NoConversion(x) == IF x.isStr THEN x.s ELSE <<>>

\* str(x) of a list element.
StrOf(x) == IF x.isStr THEN x.s ELSE Str(x.n)

\* An input value: a scalar literal or a list.
Scalar == [isList |-> FALSE, items |-> <<>>]
List(items) == [isList |-> TRUE, items |-> items]
\* The reference [source_id, output_slot].
Ref(id, slot) == List(<<StrElem(id), IntElem(slot)>>)

\* node_data["inputs"]: absent, a mapping (its values in iteration order), or
\* a value without .items() (None, a list, a string).
NoInputs == [kind |-> "absent", items |-> <<>>]
Inputs(items) == [kind |-> "map", items |-> items]
BadInputs == [kind |-> "bad", items |-> <<>>]

\* node_data["_meta"]: absent, a mapping with or without "title", or a value
\* without .get() (None, a string).
NoMeta == [kind |-> "absent", hasTitle |-> FALSE, title |-> ""]
Meta(title) == [kind |-> "map", hasTitle |-> TRUE, title |-> title]
MetaNoTitle == [kind |-> "map", hasTitle |-> FALSE, title |-> ""]
BadMeta == [kind |-> "bad", hasTitle |-> FALSE, title |-> ""]

\* A workflow value: a node description, a dict without class_type, or a
\* value that is not a dict.
Node(class, inputs, meta) ==
    [isDict |-> TRUE, hasClass |-> TRUE, class_type |-> class,
     inputs |-> inputs, meta |-> meta]
NoClassDict ==
    [isDict |-> TRUE, hasClass |-> FALSE, class_type |-> "",
     inputs |-> NoInputs, meta |-> NoMeta]
NotADict ==
    [isDict |-> FALSE, hasClass |-> FALSE, class_type |-> "",
     inputs |-> NoInputs, meta |-> NoMeta]

Entry(key, val) == [key |-> key, val |-> val]
\* A dict in insertion order, and a value that has no .items().
Workflow(entries) == [isMapping |-> TRUE, entries |-> entries]
NotAMapping == [isMapping |-> FALSE, entries |-> <<>>]

\* Keys of a workflow mapping.
Keys(w) == {w.entries[i].key : i \in 1..Len(w.entries)}
\* workflow[key]
Lookup(w, key) ==
    w.entries[CHOOSE i \in 1..Len(w.entries) : w.entries[i].key = key].val

Range(s) == {s[i] : i \in 1..Len(s)}

\* ------------------------------------------------- get_sorted_workflow_nodes
\* isinstance(node_data, dict) and "class_type" in node_data
IsValidEntry(node_data) == node_data.isDict /\ node_data.hasClass

\* Mutant: the length test written with > instead of >=.
IsReference_Strict(input_value) ==
    input_value.isList /\ Len(input_value.items) > 2

\* isinstance(input_value, list) and len(input_value) >= 2
IsReference(input_value) == input_value.isList /\ Len(input_value.items) >= 2

\* dep_node_id = str(input_value[0])
DepNodeId(input_value) == StrOf(input_value.items[1])

\* Mutant: the membership test on the workflow left out.
InWorkflow_Always(dep_node_id, w) == TRUE

\* dep_node_id in workflow
InWorkflow(dep_node_id, w) == dep_node_id \in Keys(w)

RECURSIVE ExtractDependencies(_, _)
\* The loop over inputs.items(): the dependencies list of one node.
ExtractDependencies(items, w) ==
    IF items = <<>> THEN <<>>
    ELSE LET input_value == Head(items)
             rest == ExtractDependencies(Tail(items), w)
         IN IF IsReference(input_value) /\ InWorkflow(DepNodeId(input_value), w)
            THEN <<DepNodeId(input_value)>> \o rest
            ELSE rest

\* A title that ignores _meta: always the class_type.
NodeTitle_AlwaysClass(node_data) == node_data.class_type

\* node_data.get("_meta", {}).get("title", node_data["class_type"])
NodeTitle(node_data) ==
    IF node_data.meta.kind = "map" /\ node_data.meta.hasTitle
    THEN node_data.meta.title
    ELSE node_data.class_type

\* The node_info dict.
NodeInfo(node_id, node_data, dependencies) ==
    [nodeId |-> node_id, classType |-> node_data.class_type,
     nodeTitle |-> NodeTitle(node_data), dependencies |-> dependencies]

\* inputs.items() raises AttributeError unless inputs is a mapping.
InputsRaise(node_data) == node_data.inputs.kind = "bad"
\* node_data.get("_meta", {}).get(...) raises unless _meta is a mapping.
MetaRaises(node_data) == node_data.meta.kind = "bad"
\* The first-pass body raises on this entry.
EntryRaises(node_data) ==
    IsValidEntry(node_data) /\ (InputsRaise(node_data) \/ MetaRaises(node_data))

\* An order that takes the ids as numbers: the shorter string first.
IdLess_Numeric(a, b) ==
    Len(a) < Len(b) \/ (Len(a) = Len(b) /\ LexLess(a, b))

\* The descending order of the id strings.
IdLess_Descending(a, b) == LexLess(b, a)

\* The order sorted() puts two ids in: < on str.
IdLess(a, b) == LexLess(a, b)

RECURSIVE SortedIds(_)
\* sorted(node_ids): ascending order of the id strings.
SortedIds(S) ==
    IF S = {} THEN <<>>
    ELSE LET m == CHOOSE x \in S : \A y \in S \ {x} : IdLess(x, y)
         IN <<m>> \o SortedIds(S \ {m})

\* list(node_dependencies.keys()) without the sort: the keys as inserted, which
\* is the order in which the first pass appended the nodes.
RootOrder_Unsorted(ns) == [i \in 1..Len(ns) |-> ns[i].nodeId]

\* sorted(node_ids), node_ids being list(node_dependencies.keys()): the keys
\* of the nodes the first pass recorded, ascending.
RootOrder(ns) == SortedIds(Range(RootOrder_Unsorted(ns)))

\* The dependencies of a node taken last first.
DepsOf_Reversed(deps_map, node_id) ==
    IF node_id \in DOMAIN deps_map
    THEN [i \in 1..Len(deps_map[node_id]) |->
             deps_map[node_id][Len(deps_map[node_id]) + 1 - i]]
    ELSE <<>>

\* node_dependencies.get(node_id, [])
DepsOf(deps_map, node_id) ==
    IF node_id \in DOMAIN deps_map THEN deps_map[node_id] ELSE <<>>

\* Mutant: the guard of the recursive call inverted.
ShouldTraverse_Inverted(dep_id, deps_map) == dep_id \notin DOMAIN deps_map

\* Mutant: the guard of the recursive call left out.
ShouldTraverse_Always(dep_id, deps_map) == TRUE

\* if dep_id in node_dependencies
ShouldTraverse(dep_id, deps_map) == dep_id \in DOMAIN deps_map

\* Mutant: the early return on visited nodes left out.
ReturnsEarly_NoVisitedCheck(node_id, temp, done) == node_id \in temp

\* Mutant: the early return on in-progress nodes left out.
ReturnsEarly_NoCycleCheck(node_id, temp, done) == node_id \in done

\* The two early returns at the head of visit_node.
ReturnsEarly(node_id, temp, done) == node_id \in temp \/ node_id \in done

\* The scan of nodes for node_id: the first match, or nothing.
FindNode(node_list, node_id) ==
    LET hits == {i \in 1..Len(node_list) : node_list[i].nodeId = node_id}
    IN IF hits = {} THEN <<>>
       ELSE <<node_list[CHOOSE i \in hits : \A j \in hits : i <= j]>>

\* The except branch raises again: workflow.items() or the _meta lookup.
FallbackRaises(w) ==
    \/ ~w.isMapping
    \/ \E i \in 1..Len(w.entries) :
          IsValidEntry(w.entries[i].val) /\ MetaRaises(w.entries[i].val)

RECURSIVE FallbackNodes(_)
\* fallback_nodes: the valid entries in insertion order, no dependencies.
FallbackNodes(entries) ==
    IF entries = <<>> THEN <<>>
    ELSE LET e == Head(entries)
         IN (IF IsValidEntry(e.val) THEN <<NodeInfo(e.key, e.val, <<>>)>> ELSE <<>>)
            \o FallbackNodes(Tail(entries))

\* ------------------------------------------------------------------ inputs
\* The id of the k-th generated node, and an id that is never a key.
NodeId(k) == Str(k)
Dangling == Str(99)

\* Sequences over S of length at most r.
SeqsUpTo(S, r) == UNION {[1..m -> S] : m \in 0..r}

\* The inputs mapping of node k in a graph given by its reference inputs,
\* listed as (consumer k, source id) in the order they are written; the i-th
\* input of a node reads output slot i - 1.
RefInputs(k, edges) ==
    LET IsMine(e) == e.to = k
        mine == SelectSeq(edges, IsMine)
    IN Inputs([i \in 1..Len(mine) |-> Ref(mine[i].from, i - 1)])

\* Insertion orders of the keys 1..n: ascending and descending.
Orders(n) == {[i \in 1..n |-> i], [i \in 1..n |-> n + 1 - i]}

\* Graph workflows: n valid nodes, at most MaxRefs reference inputs in all,
\* each naming a node of the graph or the dangling id.
GraphWorkflows ==
    UNION {
        {Workflow([i \in 1..n |->
                     Entry(NodeId(order[i]),
                           Node("Op", RefInputs(order[i], edges), NoMeta))]) :
            order \in Orders(n),
            edges \in SeqsUpTo([to : 1..n,
                                from : {NodeId(k) : k \in 1..n} \cup {Dangling}],
                               MaxRefs)} :
        n \in 0..MaxNodes}

\* List input values of the lengths the length test tells apart, whose first
\* element is a str or an int.
ListValues(firsts) ==
    {List(<<f>>) : f \in firsts}
    \cup {List(<<f, IntElem(0)>>) : f \in firsts}
    \cup {List(<<f, IntElem(0), IntElem(0)>>) : f \in firsts}

\* One entry of each shape the code tells apart.
EntryShapes ==
    LET firsts == {StrElem(NodeId(k)) : k \in 1..2} \cup {IntElem(k) : k \in 1..2}
    IN {NotADict, NoClassDict, Node("Op", BadInputs, NoMeta)}
       \cup {Node("Op", NoInputs, m) : m \in {Meta("Title"), MetaNoTitle, BadMeta}}
       \cup {Node("Op", Inputs(<<v>>), NoMeta) : v \in {Scalar} \cup ListValues(firsts)}

\* Shape workflows: the keys "1" and "2" in either order, each entry of any
\* shape.
ShapeWorkflows ==
    {Workflow([i \in 1..2 |-> Entry(NodeId(order[i]), shape[order[i]])]) :
        order \in Orders(2), shape \in [1..2 -> EntryShapes]}

\* MOCK_WORKFLOW of the test script.
MOCK_WORKFLOW ==
    Workflow(<<
        Entry(Str(1), Node("CLIPTextEncode",
                           Inputs(<<Scalar, Ref(Str(2), 0)>>),
                           Meta("Positive Prompt"))),
        Entry(Str(2), Node("CheckpointLoaderSimple",
                           Inputs(<<Scalar>>),
                           Meta("Load Checkpoint"))),
        Entry(Str(3), Node("KSampler",
                           Inputs(<<Scalar, Scalar, Ref(Str(2), 0),
                                    Ref(Str(1), 0), Ref(Str(4), 0)>>),
                           Meta("K-Sampler"))),
        Entry(Str(4), Node("CLIPTextEncode",
                           Inputs(<<Scalar, Ref(Str(2), 0)>>),
                           Meta("Negative Prompt"))),
        Entry(Str(5), Node("VAEDecode",
                           Inputs(<<Ref(Str(3), 0), Ref(Str(2), 2)>>),
                           Meta("VAE Decoder")))
    >>)

\* A graph of valid nodes with the given insertion order and reference
\* inputs, and the reference input by which node `to` reads node `from`.
Graph(order, edges) ==
    Workflow([i \in 1..Len(order) |->
                 Entry(NodeId(order[i]),
                       Node("Op", RefInputs(order[i], edges), NoMeta))])
Edge(to, from) == [to |-> to, from |-> NodeId(from)]

\* Graphs beyond the generated ones: the cycle of three nodes in its two
\* directions, and graphs without references whose ids have one and two
\* digits.
SampleWorkflows ==
    {Graph(<<1, 2, 3>>, <<Edge(1, 2), Edge(2, 3), Edge(3, 1)>>),
     Graph(<<3, 1, 2>>, <<Edge(1, 3), Edge(3, 2), Edge(2, 1)>>),
     Graph(<<2, 10, 11>>, <<>>),
     Graph(<<11, 2, 10>>, <<>>)}

\* The arguments get_sorted_workflow_nodes is called with.
Workflows ==
    GraphWorkflows \cup ShapeWorkflows \cup SampleWorkflows
    \cup {MOCK_WORKFLOW, NotAMapping}

\* ------------------------------------------------------------------- state
VARIABLES
    workflow,           \* the argument of the call
    pc,                 \* "first_pass", "visit", "except", "returned", "raised"
    idx,                \* position of the first-pass loop in workflow.items()
    nodes,              \* nodes
    node_dependencies,  \* node_dependencies
    roots,              \* sorted(node_ids)
    root_idx,           \* position of the root loop in roots
    sorted_nodes,       \* sorted_nodes
    visited,            \* visited
    temp_visited,       \* temp_visited
    stack,              \* active calls of visit_node, innermost last
    result,             \* the returned list
    failed,             \* the try body raised
    body_log,           \* node ids for which the body of visit_node ran
    call_log            \* node ids visit_node was called with

\* The state of one call of get_sorted_workflow_nodes.
callVars == <<workflow, pc, idx, nodes, node_dependencies, roots, root_idx,
              sorted_nodes, visited, temp_visited, stack, result, failed,
              body_log, call_log>>

\* The caller of get_sorted_workflow_nodes.
VARIABLES
    calls,              \* the calls that came to an end, oldest first
    parked              \* the state of a second call that is not running now

callerVars == <<calls, parked>>

\* The call of should_show_progress.
VARIABLES
    shown_node_id,      \* node_id
    workflow_order,     \* workflow_order
    current_index,      \* current_index
    show_pc,            \* "idle", "call", "returned"
    show_result         \* the returned boolean

filterVars == <<shown_node_id, workflow_order, current_index, show_pc,
                show_result>>

\* The monitor (ComfyUIMonitor) and main.
VARIABLES
    eventbridge,            \* self.eventbridge is a client (TRUE) or None
    running,                \* self.running
    websocket,              \* self.websocket: "none", "open" or "closed"
    reconnect_attempts,     \* self.reconnect_attempts
    max_reconnect_attempts, \* self.max_reconnect_attempts
    shutdown_event,         \* shutdown_event is set
    mon_pc,                 \* where the monitoring task is
    main_pc,                \* where main is
    message,                \* the message handled last
    events,                 \* the calls of publish_event of the last step
                            \* that published
    connect_log,            \* connection attempts so far when all of them
                            \* failed, -1 once one succeeded
    reconnect_delay,        \* self.reconnect_delay, in seconds
    delay                   \* delay of the sleep in handle_reconnect, in
                            \* tenths of a second; 0 outside of it

backoffVars == <<reconnect_delay, delay>>

monVars == <<eventbridge, running, websocket, reconnect_attempts,
             max_reconnect_attempts, shutdown_event, mon_pc, main_pc,
             message, events, connect_log, backoffVars>>

\* The call of cfnresponse.send.
VARIABLES
    send_args,          \* event, context and the other arguments of send
    send_pc,            \* "idle", "called", "put", "returned" or "raised"
    responseBody,       \* responseBody, once it is built
    response,           \* what http.request did
    send_result         \* the returned boolean

cfnVars == <<send_args, send_pc, responseBody, response, send_result>>

\* Everything outside the running call.
sortEnv == <<callerVars, filterVars, monVars, cfnVars>>

\* Everything outside the call of should_show_progress.
filterEnv == <<callVars, callerVars, monVars, cfnVars>>

\* Everything outside the monitor.
monEnv == <<callVars, callerVars, filterVars, cfnVars>>

\* Everything outside the call of send.
cfnEnv == <<callVars, callerVars, filterVars, monVars>>

\* No call of get_sorted_workflow_nodes is made.
SortIdle ==
    /\ workflow = NotAMapping
    /\ pc = "idle"
    /\ idx = 1
    /\ nodes = <<>>
    /\ node_dependencies = <<>>
    /\ roots = <<>>
    /\ root_idx = 1
    /\ sorted_nodes = <<>>
    /\ visited = {}
    /\ temp_visited = {}
    /\ stack = <<>>
    /\ result = <<>>
    /\ failed = FALSE
    /\ body_log = <<>>
    /\ call_log = {}
    /\ calls = <<>>
    /\ parked = <<>>

\* No call of should_show_progress is made.
FilterIdle ==
    /\ shown_node_id = <<>>
    /\ workflow_order = <<>>
    /\ current_index = 0
    /\ show_pc = "idle"
    /\ show_result = FALSE

\* Python's None where a string may stand.
None == "<None>"

\* `not x` for a value that is None or a string.
Falsy(x) == x = None \/ x = ""

\* The data of a message as far as the handlers read it: prompt_id and node
\* (None when absent), the object a handler reads with a second .get (status,
\* output or exception: "absent", "dict", or "bad" for a value without
\* .get), whether output.images is a non-empty list, and the entries of
\* nodes in order ("ok" for a dict, "bad" for a value without .get).
Data(prompt_id, node, nested, images, node_infos) ==
    [prompt_id |-> prompt_id, node |-> node, nested |-> nested,
     images |-> images, nodes |-> node_infos]
NoData == Data(None, None, "absent", FALSE, <<>>)

\* A WebSocket message: text that is a JSON object ("object"), JSON of
\* another kind ("other") or no JSON ("invalid"), with its type and data.
Message(parse, type, data) == [parse |-> parse, type |-> type, data |-> data]

\* No message was handled yet.
NoMessage == Message("none", None, NoData)

\* No monitor is constructed.
MonitorIdle ==
    /\ eventbridge = FALSE
    /\ running = FALSE
    /\ websocket = "none"
    /\ reconnect_attempts = 0
    /\ max_reconnect_attempts = 1
    /\ shutdown_event = FALSE
    /\ mon_pc = "idle"
    /\ main_pc = "idle"
    /\ message = NoMessage
    /\ events = <<>>
    /\ connect_log = 0
    /\ reconnect_delay = 5
    /\ delay = 0

\* The arguments of send: the keys the event has, context.log_stream_name
\* and the five other arguments (None for one that is not supplied).
SendArgs(keys, stream, status, data, physical, no_echo, reason) ==
    [keys |-> keys, log_stream_name |-> stream, responseStatus |-> status,
     responseData |-> data, physicalResourceId |-> physical,
     noEcho |-> no_echo, reason |-> reason]

\* A response body: Reason is the list of the strings it is put together
\* from.
Body(status, reason, physical, no_echo, data) ==
    [Status |-> status, Reason |-> reason, PhysicalResourceId |-> physical,
     StackId |-> "stack", RequestId |-> "request",
     LogicalResourceId |-> "logical", NoEcho |-> no_echo, Data |-> data]

NoBody == Body(None, <<>>, None, FALSE, None)

\* What http.request did: not called, returned a response with a status
\* code, or raised.
NoResponse == [kind |-> "none", status |-> 0]
HttpResponse(status) == [kind |-> "response", status |-> status]
HttpRaised == [kind |-> "raised", status |-> 0]

\* send is not called.
CfnIdle ==
    /\ send_args = SendArgs({}, None, None, None, None, FALSE, None)
    /\ send_pc = "idle"
    /\ responseBody = NoBody
    /\ response = NoResponse
    /\ send_result = FALSE

vars == <<callVars, sortEnv>>

Init ==
    /\ workflow \in Workflows
    /\ pc = "first_pass"
    /\ idx = 1
    /\ nodes = <<>>
    /\ node_dependencies = <<>>
    /\ roots = <<>>
    /\ root_idx = 1
    /\ sorted_nodes = <<>>
    /\ visited = {}
    /\ temp_visited = {}
    /\ stack = <<>>
    /\ result = <<>>
    /\ failed = FALSE
    /\ body_log = <<>>
    /\ call_log = {}
    /\ calls = <<>>
    /\ parked = <<>>
    /\ FilterIdle
    /\ MonitorIdle
    /\ CfnIdle

\* ----------------------------------------------------------------- actions
\* An exception in the first pass: workflow.items() on a value that is not a
\* mapping, or the body on a malformed entry. Control moves to the handler.
FirstPassRaise ==
    /\ pc = "first_pass"
    /\ \/ ~workflow.isMapping
       \/ /\ idx <= Len(workflow.entries)
          /\ EntryRaises(workflow.entries[idx].val)
    /\ pc' = "except"
    /\ failed' = TRUE
    /\ UNCHANGED <<workflow, idx, nodes, node_dependencies, roots, root_idx,
                   sorted_nodes, visited, temp_visited, stack, result,
                   body_log, call_log>>
    /\ UNCHANGED sortEnv

\* One iteration of the first pass.
FirstPassStep ==
    /\ pc = "first_pass"
    /\ workflow.isMapping
    /\ idx <= Len(workflow.entries)
    /\ LET node_id == workflow.entries[idx].key
           node_data == workflow.entries[idx].val
       IN /\ ~EntryRaises(node_data)
          /\ IF IsValidEntry(node_data)
             THEN LET dependencies ==
                          ExtractDependencies(node_data.inputs.items, workflow)
                  IN /\ nodes' = Append(nodes,
                                        NodeInfo(node_id, node_data, dependencies))
                     /\ node_dependencies' =
                            (node_id :> dependencies) @@ node_dependencies
             ELSE UNCHANGED <<nodes, node_dependencies>>
    /\ idx' = idx + 1
    /\ UNCHANGED <<workflow, pc, roots, root_idx, sorted_nodes, visited,
                   temp_visited, stack, result, failed, body_log, call_log>>
    /\ UNCHANGED sortEnv

\* The first pass is over: the traversal state is set up and the roots are
\* the sorted node ids.
BeginSort ==
    /\ pc = "first_pass"
    /\ workflow.isMapping
    /\ idx > Len(workflow.entries)
    /\ roots' = RootOrder(nodes)
    /\ root_idx' = 1
    /\ pc' = "visit"
    /\ UNCHANGED <<workflow, idx, nodes, node_dependencies, sorted_nodes,
                   visited, temp_visited, stack, result, failed, body_log,
                   call_log>>
    /\ UNCHANGED sortEnv

\* The call visit_node(node_id) made with the caller's frames `callers`: it
\* returns at once, or marks the node in progress and starts its loop.
CallVisit(node_id, callers) ==
    /\ call_log' = call_log \cup {node_id}
    /\ IF ReturnsEarly(node_id, temp_visited, visited)
       THEN /\ stack' = callers
            /\ UNCHANGED <<temp_visited, body_log>>
       ELSE /\ temp_visited' = temp_visited \cup {node_id}
            /\ stack' = Append(callers, [node_id |-> node_id, next |-> 1])
            /\ body_log' = Append(body_log, node_id)

\* One iteration of the root loop.
RootStep ==
    /\ pc = "visit"
    /\ stack = <<>>
    /\ root_idx <= Len(roots)
    /\ root_idx' = root_idx + 1
    /\ IF roots[root_idx] \notin visited
       THEN CallVisit(roots[root_idx], <<>>)
       ELSE UNCHANGED <<stack, temp_visited, body_log, call_log>>
    /\ UNCHANGED <<workflow, pc, idx, nodes, node_dependencies, roots,
                   sorted_nodes, visited, result, failed>>
    /\ UNCHANGED sortEnv

\* One iteration of the dependency loop of the innermost visit_node.
VisitDep ==
    /\ pc = "visit"
    /\ stack # <<>>
    /\ LET top == stack[Len(stack)]
           deps == DepsOf(node_dependencies, top.node_id)
           callers == [stack EXCEPT ![Len(stack)].next = top.next + 1]
       IN /\ top.next <= Len(deps)
          /\ IF ShouldTraverse(deps[top.next], node_dependencies)
             THEN CallVisit(deps[top.next], callers)
             ELSE /\ stack' = callers
                  /\ UNCHANGED <<temp_visited, body_log, call_log>>
    /\ UNCHANGED <<workflow, pc, idx, nodes, node_dependencies, roots,
                   root_idx, sorted_nodes, visited, result, failed>>
    /\ UNCHANGED sortEnv

\* A finalization that leaves the node in temp_visited.
VisitFinish_KeepInProgress ==
    /\ pc = "visit"
    /\ stack # <<>>
    /\ LET top == stack[Len(stack)]
       IN /\ top.next > Len(DepsOf(node_dependencies, top.node_id))
          /\ temp_visited' = temp_visited
          /\ visited' = visited \cup {top.node_id}
          /\ sorted_nodes' = sorted_nodes \o FindNode(nodes, top.node_id)
          /\ stack' = SubSeq(stack, 1, Len(stack) - 1)
    /\ UNCHANGED <<workflow, pc, idx, nodes, node_dependencies, roots,
                   root_idx, result, failed, body_log, call_log>>
    /\ UNCHANGED sortEnv

\* The innermost visit_node leaves its loop: the node is finalized and
\* appended to sorted_nodes.
VisitFinish ==
    /\ pc = "visit"
    /\ stack # <<>>
    /\ LET top == stack[Len(stack)]
       IN /\ top.next > Len(DepsOf(node_dependencies, top.node_id))
          /\ temp_visited' = temp_visited \ {top.node_id}
          /\ visited' = visited \cup {top.node_id}
          /\ sorted_nodes' = sorted_nodes \o FindNode(nodes, top.node_id)
          /\ stack' = SubSeq(stack, 1, Len(stack) - 1)
    /\ UNCHANGED <<workflow, pc, idx, nodes, node_dependencies, roots,
                   root_idx, result, failed, body_log, call_log>>
    /\ UNCHANGED sortEnv

\* A return that empties the caller's mapping, as if the traversal consumed
\* its argument.
Return_Clearing ==
    /\ pc = "visit"
    /\ stack = <<>>
    /\ root_idx > Len(roots)
    /\ result' = sorted_nodes
    /\ pc' = "returned"
    /\ workflow' = [workflow EXCEPT !.entries = <<>>]
    /\ UNCHANGED <<idx, nodes, node_dependencies, roots, root_idx,
                   sorted_nodes, visited, temp_visited, stack, failed,
                   body_log, call_log>>
    /\ UNCHANGED sortEnv

\* return sorted_nodes
Return ==
    /\ pc = "visit"
    /\ stack = <<>>
    /\ root_idx > Len(roots)
    /\ result' = sorted_nodes
    /\ pc' = "returned"
    /\ UNCHANGED <<workflow, idx, nodes, node_dependencies, roots, root_idx,
                   sorted_nodes, visited, temp_visited, stack, failed,
                   body_log, call_log>>
    /\ UNCHANGED sortEnv

\* The except branch returns the fallback nodes.
Fallback ==
    /\ pc = "except"
    /\ ~FallbackRaises(workflow)
    /\ result' = FallbackNodes(workflow.entries)
    /\ pc' = "returned"
    /\ UNCHANGED <<workflow, idx, nodes, node_dependencies, roots, root_idx,
                   sorted_nodes, visited, temp_visited, stack, failed,
                   body_log, call_log>>
    /\ UNCHANGED sortEnv

\* The except branch raises: the exception leaves the function.
FallbackRaise ==
    /\ pc = "except"
    /\ FallbackRaises(workflow)
    /\ pc' = "raised"
    /\ UNCHANGED <<workflow, idx, nodes, node_dependencies, roots, root_idx,
                   sorted_nodes, visited, temp_visited, stack, result, failed,
                   body_log, call_log>>
    /\ UNCHANGED sortEnv

Next ==
    \/ FirstPassRaise
    \/ FirstPassStep
    \/ BeginSort
    \/ RootStep
    \/ VisitDep
    \/ VisitFinish
    \/ Return
    \/ Fallback
    \/ FallbackRaise

Spec == Init /\ [][Next]_vars

\* The interpreter runs the call to its end.
FairSpec == Spec /\ WF_vars(Next)

\* -------------------------------------------------- a caller calling twice
\* The entries of w in the opposite insertion order.
Reversed(w) ==
    [w EXCEPT !.entries = [i \in 1..Len(w.entries) |->
                              w.entries[Len(w.entries) + 1 - i]]]

\* The graphs a caller passes to a second call: the same mapping, or one with
\* the same entries inserted in another key order.
Recalls(w) == {w, Reversed(w)}

\* What the caller keeps of the call that came to an end.
Outcome == [workflow |-> workflow, pc |-> pc, failed |-> failed,
            result |-> result]

\* Entry of a call whose traversal state is left over from an earlier call,
\* as if visited were not local to the call.
Enter_KeepVisited(w) ==
    /\ workflow' = w
    /\ pc' = "first_pass"
    /\ idx' = 1
    /\ nodes' = <<>>
    /\ node_dependencies' = <<>>
    /\ roots' = <<>>
    /\ root_idx' = 1
    /\ sorted_nodes' = <<>>
    /\ visited' = visited
    /\ temp_visited' = {}
    /\ stack' = <<>>
    /\ result' = <<>>
    /\ failed' = FALSE
    /\ body_log' = <<>>
    /\ call_log' = {}

\* Entry of a call with argument w: every local of the function is created
\* anew by the call.
Enter(w) ==
    /\ workflow' = w
    /\ pc' = "first_pass"
    /\ idx' = 1
    /\ nodes' = <<>>
    /\ node_dependencies' = <<>>
    /\ roots' = <<>>
    /\ root_idx' = 1
    /\ sorted_nodes' = <<>>
    /\ visited' = {}
    /\ temp_visited' = {}
    /\ stack' = <<>>
    /\ result' = <<>>
    /\ failed' = FALSE
    /\ body_log' = <<>>
    /\ call_log' = {}

\* The caller's first call came to an end and it calls a second time.
CallAgain ==
    /\ pc \in {"returned", "raised"}
    /\ calls = <<>>
    /\ parked = <<>>
    /\ calls' = <<Outcome>>
    /\ \E w \in Recalls(workflow) : Enter(w)
    /\ UNCHANGED parked
    /\ UNCHANGED <<filterVars, monVars, cfnVars>>

TwiceNext ==
    \/ Next
    \/ CallAgain

TwiceSpec == Init /\ [][TwiceNext]_vars

\* ------------------------------------------------- two calls interleaved
\* The graphs of the two callers: the test script's workflow, a chain
\* inserted last node first, a cycle, a graph with an entry whose inputs are
\* not a mapping, one whose _meta is not a mapping, and a value that is not
\* a mapping.
PairWorkflows ==
    {MOCK_WORKFLOW,
     Graph(<<3, 2, 1>>, <<Edge(1, 2), Edge(2, 3)>>),
     Graph(<<1, 2>>, <<Edge(1, 2), Edge(2, 1)>>),
     Workflow(<<Entry(NodeId(1), Node("Op", NoInputs, Meta("Title"))),
                Entry(NodeId(2), Node("Op", BadInputs, NoMeta))>>),
     Workflow(<<Entry(NodeId(1), Node("Op", NoInputs, BadMeta))>>),
     NotAMapping}

\* The locals of the running call, and the locals of a call that was just
\* entered with argument w.
Locals ==
    [workflow |-> workflow,
     pc |-> pc,
     idx |-> idx,
     nodes |-> nodes,
     node_dependencies |-> node_dependencies,
     roots |-> roots,
     root_idx |-> root_idx,
     sorted_nodes |-> sorted_nodes,
     visited |-> visited,
     temp_visited |-> temp_visited,
     stack |-> stack,
     result |-> result,
     failed |-> failed,
     body_log |-> body_log,
     call_log |-> call_log]
Entered(w) ==
    [workflow |-> w, pc |-> "first_pass", idx |-> 1, nodes |-> <<>>,
     node_dependencies |-> <<>>, roots |-> <<>>, root_idx |-> 1,
     sorted_nodes |-> <<>>, visited |-> {}, temp_visited |-> {},
     stack |-> <<>>, result |-> <<>>, failed |-> FALSE, body_log |-> <<>>,
     call_log |-> {}]

\* What the caller keeps of a call with locals r that came to an end.
OutcomeOf(r) == [workflow |-> r.workflow, pc |-> r.pc, failed |-> r.failed,
                 result |-> r.result]

\* The call with locals r goes on, but visited is one set that both calls
\* read and write.
Resume_SharedVisited(r) ==
    /\ workflow' = r.workflow
    /\ pc' = r.pc
    /\ idx' = r.idx
    /\ nodes' = r.nodes
    /\ node_dependencies' = r.node_dependencies
    /\ roots' = r.roots
    /\ root_idx' = r.root_idx
    /\ sorted_nodes' = r.sorted_nodes
    /\ visited' = visited
    /\ temp_visited' = r.temp_visited
    /\ stack' = r.stack
    /\ result' = r.result
    /\ failed' = r.failed
    /\ body_log' = r.body_log
    /\ call_log' = r.call_log

\* The call with locals r goes on: each call has its own locals.
Resume(r) ==
    /\ workflow' = r.workflow
    /\ pc' = r.pc
    /\ idx' = r.idx
    /\ nodes' = r.nodes
    /\ node_dependencies' = r.node_dependencies
    /\ roots' = r.roots
    /\ root_idx' = r.root_idx
    /\ sorted_nodes' = r.sorted_nodes
    /\ visited' = r.visited
    /\ temp_visited' = r.temp_visited
    /\ stack' = r.stack
    /\ result' = r.result
    /\ failed' = r.failed
    /\ body_log' = r.body_log
    /\ call_log' = r.call_log

InitPair ==
    /\ \E w1, w2 \in PairWorkflows :
          /\ w1 # w2
          /\ workflow = w1
          /\ parked = <<Entered(w2)>>
    /\ pc = "first_pass"
    /\ idx = 1
    /\ nodes = <<>>
    /\ node_dependencies = <<>>
    /\ roots = <<>>
    /\ root_idx = 1
    /\ sorted_nodes = <<>>
    /\ visited = {}
    /\ temp_visited = {}
    /\ stack = <<>>
    /\ result = <<>>
    /\ failed = FALSE
    /\ body_log = <<>>
    /\ call_log = {}
    /\ calls = <<>>
    /\ FilterIdle
    /\ MonitorIdle
    /\ CfnIdle

\* The scheduler leaves the running call where it is and lets the other
\* call, which has not come to its end, take its next steps.
Switch ==
    /\ parked # <<>>
    /\ parked[1].pc \notin {"returned", "raised"}
    /\ parked' = <<Locals>>
    /\ Resume(parked[1])
    /\ UNCHANGED calls
    /\ UNCHANGED <<filterVars, monVars, cfnVars>>

\* Both interleaved calls came to an end: their outcomes are kept and the
\* graph of the first is sorted again, alone.
AloneFirst ==
    /\ parked # <<>>
    /\ parked[1].pc \in {"returned", "raised"}
    /\ pc \in {"returned", "raised"}
    /\ calls' = <<OutcomeOf(parked[1]), Outcome>>
    /\ parked' = <<>>
    /\ Enter(parked[1].workflow)
    /\ UNCHANGED <<filterVars, monVars, cfnVars>>

\* The first call alone came to an end: the graph of the second is sorted
\* alone.
AloneSecond ==
    /\ parked = <<>>
    /\ Len(calls) = 2
    /\ pc \in {"returned", "raised"}
    /\ calls' = Append(calls, Outcome)
    /\ Enter(calls[2].workflow)
    /\ UNCHANGED parked
    /\ UNCHANGED <<filterVars, monVars, cfnVars>>

PairNext ==
    \/ Next
    \/ Switch
    \/ AloneFirst
    \/ AloneSecond

PairSpec == InitPair /\ [][PairNext]_vars

\* ------------------------------------------------- should_show_progress
MaxOrder == 2
MaxIndex == 3

\* The id "unknown" of the test script.
Unknown == <<117, 110, 107, 110, 111, 119, 110>>

\* workflow_order of the test script: ["1", "4", "3", "11"].
ScenarioOrder == <<Str(1), Str(4), Str(3), Str(11)>>

\* The ids the filter is asked about, and the orders it is given: every list
\* of up to MaxOrder ids, repetitions included, and the test script's order.
FilterIds == {Str(1), Str(3), Str(4), Str(11), Unknown}
FilterOrders == SeqsUpTo({Str(1), Str(3), Str(4)}, MaxOrder) \cup {ScenarioOrder}
FilterIndexes == (0 - 1)..MaxIndex

\* workflow_order.index(node_id) raises ValueError: no element equals node_id.
IndexRaises(order, id) == \A i \in 1..Len(order) : order[i] # id

\* workflow_order.index(node_id): the 0-based position of the first element
\* equal to node_id.
Index(order, id) ==
    (CHOOSE i \in 1..Len(order) :
        order[i] = id /\ \A j \in 1..(i - 1) : order[j] # id) - 1

\* A comparison that hides the node the run is at.
AtOrAfter_Strict(node_index, index) == node_index > index

\* node_index >= current_index
AtOrAfter(node_index, index) == node_index >= index

\* A handler that hides the nodes it does not know.
IfUnknown_Hide == FALSE

\* except ValueError: return True
IfUnknown == TRUE

InitFilter ==
    /\ SortIdle
    /\ shown_node_id \in FilterIds
    /\ workflow_order \in FilterOrders
    /\ current_index \in FilterIndexes
    /\ show_pc = "call"
    /\ show_result = FALSE
    /\ MonitorIdle
    /\ CfnIdle

\* The try body finds node_id and returns the comparison.
ShowFound ==
    /\ show_pc = "call"
    /\ ~IndexRaises(workflow_order, shown_node_id)
    /\ show_result' = AtOrAfter(Index(workflow_order, shown_node_id),
                                current_index)
    /\ show_pc' = "returned"
    /\ UNCHANGED <<shown_node_id, workflow_order, current_index>>
    /\ UNCHANGED filterEnv

\* index raises ValueError and the handler returns True.
ShowNotFound ==
    /\ show_pc = "call"
    /\ IndexRaises(workflow_order, shown_node_id)
    /\ show_result' = IfUnknown
    /\ show_pc' = "returned"
    /\ UNCHANGED <<shown_node_id, workflow_order, current_index>>
    /\ UNCHANGED filterEnv

FilterNext ==
    \/ ShowFound
    \/ ShowNotFound

FilterSpec == InitFilter /\ [][FilterNext]_vars

\* ------------------------------------------------- the monitor: messages
MaxProgressNodes == 2
MaxReconnectAttempts == 2

PromptIds == {None, "", "p1"}
Nesteds == {"absent", "dict", "bad"}

\* The messages the server sends.
Messages ==
    {Message("invalid", None, NoData), Message("other", None, NoData),
     Message("object", "execution_cached", NoData),
     Message("object", "progress", NoData)}
    \cup {Message("object", "status", Data(None, None, n, FALSE, <<>>)) :
              n \in Nesteds}
    \cup {Message("object", "execution_start", Data(p, None, "absent", FALSE, <<>>)) :
              p \in PromptIds}
    \cup {Message("object", "progress_state", Data(p, None, "absent", FALSE, ns)) :
              p \in PromptIds, ns \in SeqsUpTo({"ok", "bad"}, MaxProgressNodes)}
    \cup {Message("object", "executing", Data(p, n, "absent", FALSE, <<>>)) :
              p \in PromptIds, n \in {None, "n1"}}
    \cup {Message("object", "executed", Data(p, "n1", n, FALSE, <<>>)) :
              p \in PromptIds, n \in Nesteds}
    \cup {Message("object", "executed", Data(p, "n1", "dict", TRUE, <<>>)) :
              p \in PromptIds}
    \cup {Message("object", "execution_error", Data(p, None, n, FALSE, <<>>)) :
              p \in PromptIds, n \in Nesteds}


\* The keys every detail is to have.
Standard == {"promptId", "timestamp", "clientId"}

\* The keys of the detail dict of each event, as written in the handlers.
QueueStatusDetail == {"timestamp", "clientId", "promptId", "queueRemaining",
                      "execInfo"}
JobStartedDetail == {"promptId", "timestamp", "clientId"}
NodeExecutingDetail == {"promptId", "timestamp", "clientId", "nodeId",
                        "executionData"}
ImagesGeneratedDetail == {"promptId", "timestamp", "clientId", "nodeId",
                          "images", "output"}
NodeExecutedDetail == {"promptId", "timestamp", "clientId", "nodeId", "output"}
NodeProgressDetail == {"promptId", "timestamp", "clientId", "nodeId",
                       "displayNodeId", "nodeProgress", "nodeMaxProgress",
                       "nodePercentage", "nodeState", "parentNodeId",
                       "realNodeId"}
JobFailedDetail == {"promptId", "timestamp", "clientId", "error"}
MonitorInitializedDetail == {"timestamp", "clientId", "promptId", "comfyuiHost",
                             "version"}
MonitorStoppedDetail_NoPrompt == {"timestamp", "clientId", "reason"}
MonitorStoppedDetail == {"timestamp", "clientId", "promptId", "reason"}

\* The arguments of one call of publish_event: the event type, the value of
\* promptId in the detail and the keys of the detail.
Event(type, prompt_id, keys) ==
    [type |-> type,
     promptId |-> IF "promptId" \in keys THEN prompt_id ELSE None,
     keys |-> keys]

\* The calls of publish_event each handler makes for its data, in order.
handle_status_message(data) ==
    IF data.nested = "bad" THEN <<>>
    ELSE <<Event("Queue Status Updated", "system", QueueStatusDetail)>>

handle_execution_start_message(data) ==
    IF Falsy(data.prompt_id) THEN <<>>
    ELSE <<Event("Job Started", data.prompt_id, JobStartedDetail)>>

handle_executing_message(data) ==
    IF Falsy(data.prompt_id) THEN <<>>
    ELSE IF data.node = None THEN <<>>
    ELSE <<Event("Node Executing", data.prompt_id, NodeExecutingDetail)>>

handle_executed_message(data) ==
    IF Falsy(data.prompt_id) THEN <<>>
    ELSE IF data.nested = "bad" THEN <<>>
    ELSE IF data.nested = "dict" /\ data.images
         THEN <<Event("Images Generated", data.prompt_id, ImagesGeneratedDetail)>>
         ELSE <<Event("Node Executed", data.prompt_id, NodeExecutedDetail)>>

\* A progress_state handler without the test on prompt_id.
handle_progress_state_message_NoGuard(data) ==
    [i \in 1..Len(data.nodes) |->
        Event("Node Progress Update", data.prompt_id, NodeProgressDetail)]

\* One event per entry of nodes, up to the first entry on which
\* node_info.get raises.
handle_progress_state_message(data) ==
    IF Falsy(data.prompt_id) THEN <<>>
    ELSE LET bad == {i \in 1..Len(data.nodes) : data.nodes[i] = "bad"}
             n == IF bad = {} THEN Len(data.nodes)
                  ELSE (CHOOSE i \in bad : \A j \in bad : i <= j) - 1
         IN [i \in 1..n |->
                Event("Node Progress Update", data.prompt_id, NodeProgressDetail)]

handle_execution_error_message(data) ==
    IF Falsy(data.prompt_id) THEN <<>>
    ELSE IF data.nested = "bad" THEN <<>>
    ELSE <<Event("Job Failed", data.prompt_id, JobFailedDetail)>>

\* A router that reports an execution_cached message on the bus.
handle_websocket_message_CachedPublishes(m) ==
    IF m.parse = "object" /\ m.type = "execution_cached"
    THEN <<Event("Node Executed", "system", NodeExecutedDetail)>>
    ELSE IF m.parse # "object" THEN <<>>
    ELSE IF m.type = "status" THEN handle_status_message(m.data)
    ELSE IF m.type = "execution_start" THEN handle_execution_start_message(m.data)
    ELSE IF m.type = "progress_state" THEN handle_progress_state_message(m.data)
    ELSE IF m.type = "executing" THEN handle_executing_message(m.data)
    ELSE IF m.type = "executed" THEN handle_executed_message(m.data)
    ELSE IF m.type = "execution_error" THEN handle_execution_error_message(m.data)
    ELSE <<>>

\* handle_websocket_message: the calls of publish_event made for message m.
handle_websocket_message(m) ==
    IF m.parse # "object" THEN <<>>
    ELSE IF m.type = "status" THEN handle_status_message(m.data)
    ELSE IF m.type = "execution_start" THEN handle_execution_start_message(m.data)
    ELSE IF m.type = "progress_state" THEN handle_progress_state_message(m.data)
    ELSE IF m.type = "executing" THEN handle_executing_message(m.data)
    ELSE IF m.type = "executed" THEN handle_executed_message(m.data)
    ELSE IF m.type = "execution_cached" THEN <<>>
    ELSE IF m.type = "execution_error" THEN handle_execution_error_message(m.data)
    ELSE <<>>

\* What put_events does with an entry: it reports no failed entry, reports a
\* failed entry, or raises.
PutOutcomes == {"ok", "failed", "raised"}

\* publish_event that takes every response of put_events for a success.
publish_event_AnyResponse(client, put) ==
    IF ~client THEN "False"
    ELSE IF put = "raised" THEN "False" ELSE "True"

\* How publish_event ends for a client (or None) and an outcome of
\* put_events: it returns True or False; "raised" would be an exception
\* that leaves it.
publish_event(client, put) ==
    IF ~client THEN "False"
    ELSE IF put = "raised" THEN "False"
    ELSE IF put = "ok" THEN "True" ELSE "False"

\* The calls of publish_event for the events evs with the outcomes puts of
\* put_events; without a client put_events is not called.
Published(evs, puts) ==
    [i \in 1..Len(evs) |->
        [type |-> evs[i].type, promptId |-> evs[i].promptId,
         keys |-> evs[i].keys,
         put |-> IF eventbridge THEN puts[i] ELSE "not called",
         returned |-> publish_event(eventbridge, puts[i])]]

\* ------------------------------------------------- the monitor: backoff
\* Values of RECONNECT_DELAY: the default and one whose delays reach the cap.
ReconnectDelays == {5, 30}

\* The cap on the delay: 60 seconds, in tenths of a second as all durations.
MaxDelay == 600

RECURSIVE Pow2(_)
\* 2 ** n
Pow2(n) == IF n <= 0 THEN 1 ELSE 2 * Pow2(n - 1)

\* base_delay = self.reconnect_delay * (2 ** (self.reconnect_attempts - 1))
base_delay(seconds, attempts) == seconds * Pow2(attempts - 1) * 10

\* jitter = random.uniform(0.1, 0.5) * base_delay: a tenth, three tenths or
\* half of the base delay.
Jitters(base) == {(f * base) \div 10 : f \in {1, 3, 5}}

\* The delay without the cap.
CappedDelay_Uncapped(base, jitter) == base + jitter

\* delay = min(base_delay + jitter, 60)
CappedDelay(base, jitter) ==
    IF base + jitter < MaxDelay THEN base + jitter ELSE MaxDelay

\* ---------------------------------------------------- the monitor: steps
\* main constructed the monitor and created the monitoring task.
InitMonitor ==
    /\ SortIdle
    /\ FilterIdle
    /\ CfnIdle
    /\ eventbridge \in BOOLEAN
    /\ running = TRUE
    /\ websocket = "none"
    /\ reconnect_attempts = 0
    /\ max_reconnect_attempts \in 1..MaxReconnectAttempts
    /\ shutdown_event = FALSE
    /\ mon_pc = "start"
    /\ main_pc = "wait"
    /\ message = NoMessage
    /\ events = <<>>
    /\ connect_log = 0
    /\ reconnect_delay \in ReconnectDelays
    /\ delay = 0

\* start_monitoring up to the call of websocket_listener: the startup event
\* is published when there is a client.
StartMonitoring ==
    /\ mon_pc = "start"
    /\ \E put \in PutOutcomes :
          events' = IF eventbridge
                    THEN Published(<<Event("Monitor Initialized", "system",
                                           MonitorInitializedDetail)>>, <<put>>)
                    ELSE <<>>
    /\ mon_pc' = "loop"
    /\ UNCHANGED <<eventbridge, running, websocket, reconnect_attempts,
                   max_reconnect_attempts, shutdown_event, main_pc, message,
                   connect_log>>
    /\ UNCHANGED <<backoffVars, monEnv>>

\* while self.running: the test fails and websocket_listener returns.
LoopExit ==
    /\ mon_pc = "loop"
    /\ ~running
    /\ mon_pc' = "exited"
    /\ UNCHANGED <<eventbridge, running, websocket, reconnect_attempts,
                   max_reconnect_attempts, shutdown_event, main_pc, message,
                   events, connect_log>>
    /\ UNCHANGED <<backoffVars, monEnv>>

\* connect_websocket succeeds and leaves the counter as it is.
ConnectOk_NoReset ==
    /\ mon_pc = "loop"
    /\ running
    /\ websocket # "open"
    /\ websocket' = "open"
    /\ connect_log' = 0 - 1
    /\ mon_pc' = "listen"
    /\ UNCHANGED <<eventbridge, running, reconnect_attempts,
                   max_reconnect_attempts, shutdown_event, main_pc, message,
                   events>>
    /\ UNCHANGED <<backoffVars, monEnv>>

\* connect_websocket succeeds: the counter is reset and the listener starts
\* to iterate over the messages.
ConnectOk ==
    /\ mon_pc = "loop"
    /\ running
    /\ websocket # "open"
    /\ websocket' = "open"
    /\ reconnect_attempts' = 0
    /\ connect_log' = 0 - 1
    /\ mon_pc' = "listen"
    /\ UNCHANGED <<eventbridge, running, max_reconnect_attempts,
                   shutdown_event, main_pc, message, events>>
    /\ UNCHANGED <<backoffVars, monEnv>>

\* connect_websocket returns False: handle_reconnect is called.
ConnectFail ==
    /\ mon_pc = "loop"
    /\ running
    /\ websocket # "open"
    /\ connect_log' = IF connect_log < 0 THEN connect_log ELSE connect_log + 1
    /\ mon_pc' = "reconnect"
    /\ UNCHANGED <<eventbridge, running, websocket, reconnect_attempts,
                   max_reconnect_attempts, shutdown_event, main_pc, message,
                   events>>
    /\ UNCHANGED <<backoffVars, monEnv>>

\* handle_reconnect that counts the failure before it looks at running.
ReconnectReturn_Counting ==
    /\ mon_pc = "reconnect"
    /\ ~running
    /\ reconnect_attempts' = reconnect_attempts + 1
    /\ mon_pc' = "loop"
    /\ UNCHANGED <<eventbridge, running, websocket, max_reconnect_attempts,
                   shutdown_event, main_pc, message, events, connect_log>>
    /\ UNCHANGED <<backoffVars, monEnv>>

\* handle_reconnect when running is False: it returns at once.
ReconnectReturn ==
    /\ mon_pc = "reconnect"
    /\ ~running
    /\ mon_pc' = "loop"
    /\ UNCHANGED <<eventbridge, running, websocket, reconnect_attempts,
                   max_reconnect_attempts, shutdown_event, main_pc, message,
                   events, connect_log>>
    /\ UNCHANGED <<backoffVars, monEnv>>

\* handle_reconnect past the limit that sleeps for the backoff delay before
\* it returns.
ReconnectGiveUp_Sleeping ==
    /\ mon_pc = "reconnect"
    /\ running
    /\ reconnect_attempts + 1 > max_reconnect_attempts
    /\ reconnect_attempts' = reconnect_attempts + 1
    /\ running' = FALSE
    /\ mon_pc' = "sleep"
    /\ UNCHANGED <<eventbridge, websocket, max_reconnect_attempts,
                   shutdown_event, main_pc, message, events, connect_log>>
    /\ UNCHANGED <<backoffVars, monEnv>>

\* handle_reconnect past the limit: running is set to False, no sleep.
ReconnectGiveUp ==
    /\ mon_pc = "reconnect"
    /\ running
    /\ reconnect_attempts + 1 > max_reconnect_attempts
    /\ reconnect_attempts' = reconnect_attempts + 1
    /\ running' = FALSE
    /\ mon_pc' = "loop"
    /\ UNCHANGED <<eventbridge, websocket, max_reconnect_attempts,
                   shutdown_event, main_pc, message, events, connect_log>>
    /\ UNCHANGED <<backoffVars, monEnv>>

\* handle_reconnect within the limit: it sleeps for the backoff delay.
ReconnectBackoff ==
    /\ mon_pc = "reconnect"
    /\ running
    /\ reconnect_attempts + 1 <= max_reconnect_attempts
    /\ reconnect_attempts' = reconnect_attempts + 1
    /\ \E jitter \in Jitters(base_delay(reconnect_delay, reconnect_attempts')) :
          delay' = CappedDelay(base_delay(reconnect_delay, reconnect_attempts'),
                               jitter)
    /\ mon_pc' = "sleep"
    /\ UNCHANGED <<eventbridge, running, websocket, max_reconnect_attempts,
                   shutdown_event, main_pc, message, events, connect_log>>
    /\ UNCHANGED <<reconnect_delay, monEnv>>

\* asyncio.sleep(delay) is over: handle_reconnect returns, the loop continues.
Wake ==
    /\ mon_pc = "sleep"
    /\ mon_pc' = "loop"
    /\ delay' = 0
    /\ UNCHANGED <<eventbridge, running, websocket, reconnect_attempts,
                   max_reconnect_attempts, shutdown_event, main_pc, message,
                   events, connect_log>>
    /\ UNCHANGED <<reconnect_delay, monEnv>>

\* A message arrives while running is True: it is handled.
Receive ==
    /\ mon_pc = "listen"
    /\ running
    /\ \E m \in Messages :
          /\ message' = m
          /\ \E puts \in [1..Len(handle_websocket_message(m)) -> PutOutcomes] :
                events' = Published(handle_websocket_message(m), puts)
    /\ UNCHANGED <<eventbridge, running, websocket, reconnect_attempts,
                   max_reconnect_attempts, shutdown_event, mon_pc, main_pc,
                   connect_log>>
    /\ UNCHANGED <<backoffVars, monEnv>>

\* A message arrives while running is False: break, the message is dropped.
ReceiveStopped ==
    /\ mon_pc = "listen"
    /\ ~running
    /\ mon_pc' = "loop"
    /\ UNCHANGED <<eventbridge, running, websocket, reconnect_attempts,
                   max_reconnect_attempts, shutdown_event, main_pc, message,
                   events, connect_log>>
    /\ UNCHANGED <<backoffVars, monEnv>>

\* The connection is closed in the regular way: the iteration over the
\* messages ends without an exception.
IterationEnds ==
    /\ mon_pc = "listen"
    /\ websocket' = "closed"
    /\ mon_pc' = "loop"
    /\ UNCHANGED <<eventbridge, running, reconnect_attempts,
                   max_reconnect_attempts, shutdown_event, main_pc, message,
                   events, connect_log>>
    /\ UNCHANGED <<backoffVars, monEnv>>

\* The iteration raises (ConnectionClosed, WebSocketException, Exception):
\* websocket is set to None and handle_reconnect is called.
ConnectionLost ==
    /\ mon_pc = "listen"
    /\ websocket' = "none"
    /\ mon_pc' = "reconnect"
    /\ UNCHANGED <<eventbridge, running, reconnect_attempts,
                   max_reconnect_attempts, shutdown_event, main_pc, message,
                   events, connect_log>>
    /\ UNCHANGED <<backoffVars, monEnv>>

\* signal_handler: SIGINT or SIGTERM while main runs.
Signal ==
    /\ main_pc \in {"wait", "stopping"}
    /\ running \/ ~shutdown_event
    /\ shutdown_event' = TRUE
    /\ running' = FALSE
    /\ UNCHANGED <<eventbridge, websocket, reconnect_attempts,
                   max_reconnect_attempts, mon_pc, main_pc, message, events,
                   connect_log>>
    /\ UNCHANGED <<backoffVars, monEnv>>

\* main that goes on to its finally clause and leaves a pending monitoring
\* task as it is.
MainWake_NoCancel ==
    /\ main_pc = "wait"
    /\ shutdown_event \/ mon_pc = "exited"
    /\ main_pc' = "stopping"
    /\ UNCHANGED <<eventbridge, running, websocket, reconnect_attempts,
                   max_reconnect_attempts, shutdown_event, mon_pc, message,
                   events, connect_log>>
    /\ UNCHANGED <<backoffVars, monEnv>>

\* asyncio.wait returns in main: the monitoring task is done or the shutdown
\* event is set; a task that is still pending is cancelled.
MainWake ==
    /\ main_pc = "wait"
    /\ shutdown_event \/ mon_pc = "exited"
    /\ mon_pc' = IF mon_pc = "exited" THEN "exited" ELSE "cancelled"
    /\ main_pc' = "stopping"
    /\ UNCHANGED <<eventbridge, running, websocket, reconnect_attempts,
                   max_reconnect_attempts, shutdown_event, message, events,
                   connect_log>>
    /\ UNCHANGED <<backoffVars, monEnv>>

\* stop_monitoring, called in the finally clause of main.
StopMonitoring ==
    /\ main_pc = "stopping"
    /\ running' = FALSE
    /\ websocket' = IF websocket = "open" THEN "none" ELSE websocket
    /\ \E put \in PutOutcomes :
          events' = IF eventbridge
                    THEN Published(<<Event("Monitor Stopped", "system",
                                           MonitorStoppedDetail)>>, <<put>>)
                    ELSE <<>>
    /\ main_pc' = "done"
    /\ UNCHANGED <<eventbridge, reconnect_attempts, max_reconnect_attempts,
                   shutdown_event, mon_pc, message, connect_log>>
    /\ UNCHANGED <<backoffVars, monEnv>>

\* The steps of the monitoring task and of main, which the event loop runs.
Task ==
    \/ StartMonitoring
    \/ LoopExit
    \/ ConnectOk
    \/ ConnectFail
    \/ ReconnectReturn
    \/ ReconnectGiveUp
    \/ ReconnectBackoff
    \/ Wake
    \/ MainWake
    \/ StopMonitoring

\* What the server, the network and the operator do.
Environment ==
    \/ Receive
    \/ ReceiveStopped
    \/ IterationEnds
    \/ ConnectionLost
    \/ Signal

MonitorNext ==
    \/ Task
    \/ Environment

MonitorSpec == InitMonitor /\ [][MonitorNext]_vars

\* The event loop runs every task that can take a step; the connection
\* attempt and the sleep come to an end.
MonitorFairSpec == MonitorSpec /\ WF_vars(Task)

\* ------------------------------------------------------- cfnresponse.send
SUCCESS == "SUCCESS"
FAILED == "FAILED"

\* The keys of the event that send reads.
EventKeys == {"ResponseURL", "StackId", "RequestId", "LogicalResourceId"}

\* Status codes of a response: success, a redirect, a client and a server
\* error.
StatusCodes == {200, 301, 403, 500}

\* The calls of send: an event that is complete or lacks one key, two log
\* streams, responseData missing, a dict or a value json.dumps refuses,
\* physicalResourceId and reason missing, empty or given.
SendCalls ==
    {SendArgs(keys, l, st, d, ph, ne, r) :
        keys \in {EventKeys} \cup {EventKeys \ {k} : k \in {"ResponseURL", "StackId"}},
        l \in {"stream-a", "stream-b"},
        st \in {SUCCESS, FAILED},
        d \in {None, "dict", "unserialisable"},
        ph \in {None, "", "resource-1"},
        ne \in BOOLEAN,
        r \in {None, "", "why"}}

\* reason or f"See the details in CloudWatch Log Stream: {context.log_stream_name}"
ReasonOf(reason, log_stream_name) ==
    IF Falsy(reason)
    THEN <<"See the details in CloudWatch Log Stream: ", log_stream_name>>
    ELSE <<reason>>

\* physicalResourceId or context.log_stream_name
PhysicalIdOf(physicalResourceId, log_stream_name) ==
    IF Falsy(physicalResourceId) THEN log_stream_name ELSE physicalResourceId

\* responseData, {} when it is None.
DataOf(responseData) == IF responseData = None THEN "empty dict" ELSE responseData

\* The responseBody dict of lines 54-64.
ResponseBodyOf(a) ==
    Body(a.responseStatus, ReasonOf(a.reason, a.log_stream_name),
         PhysicalIdOf(a.physicalResourceId, a.log_stream_name), a.noEcho,
         DataOf(a.responseData))

\* event[...] raises KeyError, or json.dumps raises TypeError.
BuildRaises(a) == ~(EventKeys \subseteq a.keys) \/ a.responseData = "unserialisable"

\* A Lambda handler calls send.
InitCfn ==
    /\ SortIdle
    /\ FilterIdle
    /\ MonitorIdle
    /\ send_args \in SendCalls
    /\ send_pc = "called"
    /\ responseBody = NoBody
    /\ response = NoResponse
    /\ send_result = FALSE

\* Lines 47-70: the body and the headers are built.
SendBuild ==
    /\ send_pc = "called"
    /\ ~BuildRaises(send_args)
    /\ responseBody' = ResponseBodyOf(send_args)
    /\ send_pc' = "put"
    /\ UNCHANGED <<send_args, response, send_result>>
    /\ UNCHANGED cfnEnv

\* Lines 47-70 raise: the exception leaves send before the request.
SendBuildRaise ==
    /\ send_pc = "called"
    /\ BuildRaises(send_args)
    /\ send_pc' = "raised"
    /\ UNCHANGED <<send_args, responseBody, response, send_result>>
    /\ UNCHANGED cfnEnv

\* http.request returns a response and the status decides the result.
SendPutResponse_CheckStatus ==
    /\ send_pc = "put"
    /\ \E status \in StatusCodes :
          /\ response' = HttpResponse(status)
          /\ send_result' = (status < 300)
    /\ send_pc' = "returned"
    /\ UNCHANGED <<send_args, responseBody>>
    /\ UNCHANGED cfnEnv

\* http.request returns a response: send returns True.
SendPutResponse ==
    /\ send_pc = "put"
    /\ \E status \in StatusCodes : response' = HttpResponse(status)
    /\ send_result' = TRUE
    /\ send_pc' = "returned"
    /\ UNCHANGED <<send_args, responseBody>>
    /\ UNCHANGED cfnEnv

\* http.request raises: send logs the error and returns False.
SendPutRaise ==
    /\ send_pc = "put"
    /\ response' = HttpRaised
    /\ send_result' = FALSE
    /\ send_pc' = "returned"
    /\ UNCHANGED <<send_args, responseBody>>
    /\ UNCHANGED cfnEnv

CfnNext ==
    \/ SendBuild
    \/ SendBuildRaise
    \/ SendPutResponse
    \/ SendPutRaise

CfnSpec == InitCfn /\ [][CfnNext]_vars

\* ------------------------------------------------------------ the claims
\* Ids of the valid entries of the argument: dict values with a class_type.
ValidEntryIds ==
    {workflow.entries[i].key :
        i \in {j \in 1..Len(workflow.entries) :
                  workflow.entries[j].val.isDict /\ workflow.entries[j].val.hasClass}}

\* The ids of the returned nodes, in order.
ResultIds == [i \in 1..Len(result) |-> result[i].nodeId]

\* The list s holds no value twice.
NoDuplicates(s) == \A i, j \in 1..Len(s) : s[i] = s[j] => i = j

\* No entry of the argument is malformed: it is a mapping whose valid entries
\* have mappings (or nothing) as inputs and _meta.
WellShaped ==
    /\ workflow.isMapping
    /\ \A i \in 1..Len(workflow.entries) :
          LET v == workflow.entries[i].val
          IN v.isDict /\ v.hasClass => v.inputs.kind # "bad" /\ v.meta.kind # "bad"

\* Source ids named by the list inputs (two or more elements) of entry v.
RefSourcesOf(v) ==
    {StrOf(x.items[1]) :
        x \in {y \in Range(v.inputs.items) : y.isList /\ Len(y.items) >= 2}}

\* Valid node b has an input referencing valid node a.
DependsOn(b, a) ==
    /\ a \in ValidEntryIds
    /\ b \in ValidEntryIds
    /\ a \in RefSourcesOf(Lookup(workflow, b))

RECURSIVE Upstream(_)
\* S with every valid node that a node of S depends on, transitively.
Upstream(S) ==
    LET T == S \cup {a \in ValidEntryIds : \E b \in S : DependsOn(b, a)}
    IN IF T = S THEN S ELSE Upstream(T)

\* The edge a -> b (b depends on a) lies on a dependency cycle.
OnCycle(a, b) == b \in Upstream({a})

\* Position of id a in the returned list.
Pos(a) == CHOOSE i \in 1..Len(result) : result[i].nodeId = a

\* C1: whenever sort returns, the returned ids are exactly the ids of the
\* valid entries, each once: as many nodes as valid entries, no duplicates,
\* no omissions, with or without cycles and dangling references.
C1_Completeness ==
    pc = "returned" =>
        /\ Len(result) = Cardinality(ValidEntryIds)
        /\ Range(ResultIds) = ValidEntryIds
        /\ NoDuplicates(ResultIds)

\* A normal return of two or more nodes from a graph with a self-reference
\* and a dangling reference.
C1_Witness ==
    /\ pc = "returned"
    /\ ~failed
    /\ Len(result) >= 2
    /\ \E i \in 1..Len(result) : result[i].nodeId \in Range(result[i].dependencies)
    /\ \E b \in ValidEntryIds : Dangling \in RefSourcesOf(Lookup(workflow, b))

\* C2 as claimed: whenever sort returns, for every edge a -> b of the input
\* graph that is on no cycle, a is returned before b.
C2_AsClaimed ==
    pc = "returned" =>
        \A a, b \in ValidEntryIds :
            DependsOn(b, a) /\ ~OnCycle(a, b) => Pos(a) < Pos(b)

\* C2 amended: whenever sort returns on the normal path, for every edge
\* a -> b that is on no cycle, a is returned before b.
C2_OrderOnNormalPath ==
    pc = "returned" /\ ~failed =>
        \A i, j \in 1..Len(result) :
            /\ result[i].nodeId \in Range(result[j].dependencies)
            /\ ~OnCycle(result[i].nodeId, result[j].nodeId)
            => i < j

\* A normal return from a graph that has a cycle and an edge on no cycle.
C2_Witness ==
    /\ pc = "returned"
    /\ ~failed
    /\ \E a, b \in ValidEntryIds : DependsOn(b, a) /\ OnCycle(a, b)
    /\ \E a, b \in ValidEntryIds : DependsOn(b, a) /\ ~OnCycle(a, b)

\* C3: the body of visit_node runs at most once per node, every node of a
\* cycle is returned exactly once, and the call comes to an end.
C3_Terminates ==
    /\ [](NoDuplicates(body_log))
    /\ [](pc = "returned" =>
            \A a \in ValidEntryIds :
                OnCycle(a, a) =>
                    Cardinality({i \in 1..Len(result) : result[i].nodeId = a}) = 1)
    /\ <>(pc \in {"returned", "raised"})

\* A normal return from a graph in which two distinct nodes depend on each
\* other.
C3_Witness ==
    /\ pc = "returned"
    /\ ~failed
    /\ \E a, b \in Range(ResultIds) :
          a # b /\ DependsOn(a, b) /\ DependsOn(b, a)

\* C4: no exception leaves sort.
C4_NeverRaises == pc # "raised"

\* C5: after an error in the try body sort returns, and returns the valid
\* entries in insertion order with empty dependency lists.
C5_FallbackResult ==
    failed =>
        /\ pc # "raised"
        /\ pc = "returned" =>
              /\ ResultIds = SelectSeq([i \in 1..Len(workflow.entries) |->
                                           workflow.entries[i].key],
                                       LAMBDA k : k \in ValidEntryIds)
              /\ \A i \in 1..Len(result) : result[i].dependencies = <<>>

\* C6: a reference to an id that is no key of the graph is no error: the id
\* is in no dependency list and not in the output, and sort returns on the
\* normal path.
C6_DanglingTolerated ==
    WellShaped =>
        /\ ~failed
        /\ \A i \in 1..Len(nodes) : Range(nodes[i].dependencies) \subseteq Keys(workflow)
        /\ pc = "returned" =>
              /\ result = sorted_nodes
              /\ \A i \in 1..Len(result) :
                    /\ result[i].nodeId \in Keys(workflow)
                    /\ Range(result[i].dependencies) \subseteq Keys(workflow)

\* A normal return of a node that has a dangling reference among its inputs.
C6_Witness ==
    /\ pc = "returned"
    /\ ~failed
    /\ \E i \in 1..Len(result) :
          /\ Dangling \in RefSourcesOf(Lookup(workflow, result[i].nodeId))
          /\ Dangling \notin Range(result[i].dependencies)

\* C7: on MOCK_WORKFLOW sort returns the ids in the order 2, 1, 4, 3, 5.
C7_Scenario ==
    workflow = MOCK_WORKFLOW =>
        /\ pc \notin {"except", "raised"}
        /\ pc = "returned" => ResultIds = <<Str(2), Str(1), Str(4), Str(3), Str(5)>>

\* sort has returned from MOCK_WORKFLOW.
C7_Witness == workflow = MOCK_WORKFLOW /\ pc = "returned" /\ Len(result) = 5

\* C8: no returned dependency list holds an id twice.
C8_DistinctDependencies ==
    pc = "returned" =>
        \A i \in 1..Len(result) : NoDuplicates(result[i].dependencies)

RECURSIVE TwoElementSources(_)
\* The string forms of the first elements of the two-element lists among
\* items whose string form is a key of the graph, in order.
TwoElementSources(items) ==
    IF items = <<>> THEN <<>>
    ELSE LET x == Head(items)
         IN (IF x.isList /\ Len(x.items) = 2 /\ StrOf(x.items[1]) \in Keys(workflow)
             THEN <<StrOf(x.items[1])>> ELSE <<>>)
            \o TwoElementSources(Tail(items))

\* C9: on the normal path a node's dependencies are exactly the sources of
\* its two-element references to keys of the graph.
C9_ExactlyTwoElements ==
    pc = "returned" /\ ~failed =>
        \A i \in 1..Len(result) :
            result[i].dependencies =
                TwoElementSources(Lookup(workflow, result[i].nodeId).inputs.items)

\* C10: entries that are no node descriptions raise no error, are never
\* passed to visit_node and are never returned.
C10_InvalidSkipped ==
    /\ WellShaped => ~failed
    /\ call_log \subseteq ValidEntryIds
    /\ Range([i \in 1..Len(sorted_nodes) |-> sorted_nodes[i].nodeId]) \subseteq ValidEntryIds
    /\ pc = "returned" => Range(ResultIds) \subseteq ValidEntryIds

\* A normal return of a node that references an entry that is no node
\* description.
C10_Witness ==
    /\ pc = "returned"
    /\ ~failed
    /\ \E i \in 1..Len(result) :
          \E d \in Range(result[i].dependencies) :
              d \in Keys(workflow) \ ValidEntryIds

\* The ids of the nodes of a returned list, in order.
IdsOf(r) == [i \in 1..Len(r) |-> r[i].nodeId]

\* The keys of mapping w in insertion order.
KeyOrder(w) == [i \in 1..Len(w.entries) |-> w.entries[i].key]

\* Both calls of the caller returned on the normal path.
BothNormal ==
    /\ Len(calls) = 1
    /\ calls[1].pc = "returned"
    /\ ~calls[1].failed
    /\ pc = "returned"
    /\ ~failed

\* C11: two graphs with the same entries inserted in different key orders
\* (each node's inputs unchanged) give the same output id sequence on the
\* normal path.
C11_InsertionOrderIndependent ==
    (BothNormal /\ calls[1].workflow # workflow) =>
        ResultIds = IdsOf(calls[1].result)

\* Two normal returns of three nodes for the two insertion orders of the same
\* entries, the output being neither of the insertion orders.
C11_Witness ==
    /\ BothNormal
    /\ calls[1].workflow # workflow
    /\ Len(result) = 3
    /\ ResultIds # KeyOrder(workflow)
    /\ ResultIds # KeyOrder(calls[1].workflow)

\* No valid node of the argument depends on itself, directly or not.
Acyclic == \A a, b \in ValidEntryIds : DependsOn(b, a) => ~OnCycle(a, b)

\* C12: sorting the same acyclic graph twice gives the same output sequence:
\* the same ids in the same order with the same dependency lists.
C12_SameTwice ==
    (Len(calls) = 1 /\ calls[1].pc = "returned" /\ pc = "returned"
        /\ calls[1].workflow = workflow /\ Acyclic) =>
        /\ ResultIds = IdsOf(calls[1].result)
        /\ \A i \in 1..Len(result) :
              result[i].dependencies = calls[1].result[i].dependencies

\* The second sort of an acyclic graph returned three nodes, one of them after
\* a node it depends on and another without a dependency.
C12_Witness ==
    /\ Len(calls) = 1
    /\ calls[1].pc = "returned"
    /\ calls[1].workflow = workflow
    /\ pc = "returned"
    /\ ~failed
    /\ Acyclic
    /\ Len(result) = 3
    /\ \E i \in 1..3 : result[i].dependencies # <<>>
    /\ \E i \in 1..3 : result[i].dependencies = <<>>

\* C15: sort does not modify the graph passed by the caller: no step of a
\* call, on the normal path or the fallback path, changes the mapping, its
\* entries or their inputs.
C15_ArgumentUnchanged == [][workflow' = workflow]_vars

\* A call that collected a node, met a malformed entry and returned the
\* fallback list of two nodes.
C15_Witness ==
    /\ pc = "returned"
    /\ failed
    /\ nodes # <<>>
    /\ Len(result) >= 2

\* The title the entry v is to be shown with: its _meta.title when present,
\* its class_type otherwise.
TitleOrKind(v) == IF v.meta.hasTitle THEN v.meta.title ELSE v.class_type

\* C17: each returned node's title is the entry's _meta.title when present
\* and otherwise the entry's class_type, on the normal path and on the
\* fallback path.
C17_TitleDefaultsToKind ==
    pc = "returned" =>
        \A i \in 1..Len(result) :
            result[i].nodeTitle = TitleOrKind(Lookup(workflow, result[i].nodeId))

\* A fallback return of a node with a _meta.title and a node without one.
C17_Witness ==
    /\ pc = "returned"
    /\ failed
    /\ \E i, j \in 1..Len(result) :
          /\ Lookup(workflow, result[i].nodeId).meta.hasTitle
          /\ result[i].nodeTitle # result[i].classType
          /\ ~Lookup(workflow, result[j].nodeId).meta.hasTitle
          /\ result[j].nodeTitle = result[j].classType

\* The 0-based positions at which id occurs in order.
Positions(order, id) == {i - 1 : i \in {j \in 1..Len(order) : order[j] = id}}

\* C13: when nodeId occurs in order at first position p, the filter returns
\* true exactly when p >= currentIndex; for order ["1","4","3","11"] and
\* currentIndex 2 it is false for "1" and "4" and true for "3" and "11".
C13_ShownFromCurrentIndex ==
    (show_pc = "returned" /\ Positions(workflow_order, shown_node_id) # {}) =>
        LET occ == Positions(workflow_order, shown_node_id)
            p == CHOOSE q \in occ : \A r \in occ : q <= r
        IN /\ show_result <=> (p >= current_index)
           /\ (workflow_order = ScenarioOrder /\ current_index = 2) =>
                 /\ shown_node_id \in {Str(1), Str(4)} => ~show_result
                 /\ shown_node_id \in {Str(3), Str(11)} => show_result

\* The test script's scenario answered for the node the run is at: "3" at
\* position 2 with currentIndex 2.
C13_Witness ==
    /\ show_pc = "returned"
    /\ workflow_order = ScenarioOrder
    /\ current_index = 2
    /\ shown_node_id = Str(3)
    /\ show_result

\* C14: the filter returns true for every node id that does not occur in
\* order, for every order and every currentIndex, and does not raise.
C14_FailOpen ==
    /\ show_pc \in {"idle", "call", "returned"}
    /\ (show_pc = "returned" /\ Positions(workflow_order, shown_node_id) = {})
          => show_result

\* "unknown" asked about a non-empty order with a currentIndex past its end.
C14_Witness ==
    /\ show_pc = "returned"
    /\ shown_node_id = Unknown
    /\ workflow_order # <<>>
    /\ current_index > Len(workflow_order)
    /\ show_result

\* Two finished calls ended the same way with the same returned list.
SameOutcome(a, b) == a.pc = b.pc /\ a.failed = b.failed /\ a.result = b.result

\* C16: two invocations on different graphs whose steps are interleaved in
\* any way each end as they do when run alone.
C16_InterleavingIndependent ==
    (Len(calls) = 3 /\ pc \in {"returned", "raised"}) =>
        /\ SameOutcome(calls[1], calls[3])
        /\ SameOutcome(calls[2], Outcome)

\* Both interleaved calls and both calls alone came to an end, the two
\* graphs giving different lists of three or more nodes on the normal path.
C16_Witness ==
    /\ Len(calls) = 3
    /\ pc = "returned"
    /\ ~failed
    /\ ~calls[1].failed
    /\ Len(calls[1].result) >= 3
    /\ Len(calls[2].result) >= 3
    /\ IdsOf(calls[1].result) # IdsOf(calls[2].result)

\* C18: every event the message handlers and the lifecycle steps pass to
\* publish_event carries promptId, timestamp and clientId in its detail.
C18_StandardFields ==
    \A i \in 1..Len(events) :
        /\ Standard \subseteq events[i].keys
        /\ events[i].promptId # None

\* The shutdown event was put on the bus, after a message that published two
\* progress events was handled.
C18_Witness ==
    /\ main_pc = "done"
    /\ message.type = "progress_state"
    /\ Len(message.data.nodes) = 2
    /\ Len(events) = 1
    /\ events[1].type = "Monitor Stopped"
    /\ events[1].put = "ok"

\* The listener is where it handled `message`, and no later step published.
JustHandled == mon_pc = "listen" /\ main_pc = "wait" /\ message # NoMessage

\* C19: an 'executing' message with a prompt_id and node = None makes the
\* monitor publish exactly one 'Job Completed' event for that prompt_id.
C19_JobCompletedPublished ==
    (JustHandled /\ message.type = "executing"
        /\ ~Falsy(message.data.prompt_id) /\ message.data.node = None) =>
        /\ Len(events) = 1
        /\ events[1].type = "Job Completed"
        /\ events[1].promptId = message.data.prompt_id

\* C20: if every connection attempt fails the monitor eventually stops: the
\* call of handle_reconnect that follows max_reconnect_attempts consecutive
\* failures sets running to False and returns to the loop without
\* sleeping, the listener is left only with running False, it is left after
\* exactly max_reconnect_attempts + 1 attempts unless a signal came first, and
\* no attempt is made beyond these.
C20_GivesUp ==
    /\ [][(mon_pc = "reconnect" /\ running
             /\ reconnect_attempts = max_reconnect_attempts
             /\ mon_pc' # mon_pc) =>
            (~running' /\ mon_pc' = "loop"
             /\ reconnect_attempts' = max_reconnect_attempts + 1)]_vars
    /\ [](mon_pc = "exited" => ~running)
    /\ [](connect_log <= max_reconnect_attempts + 1)
    /\ []((mon_pc = "exited" /\ connect_log >= 0 /\ ~shutdown_event) =>
            connect_log = max_reconnect_attempts + 1)
    /\ <>(connect_log < 0 \/ mon_pc \in {"exited", "cancelled"})

\* The listener was left after three failed attempts with a limit of two,
\* without a signal.
C20_Witness ==
    /\ mon_pc = "exited"
    /\ ~shutdown_event
    /\ max_reconnect_attempts = 2
    /\ connect_log = 3
    /\ reconnect_attempts = 3
    /\ ~running

\* The valid nodes that valid node b has an input referencing.
SourcesOf(b) == {a \in ValidEntryIds : DependsOn(b, a)}

\* The valid nodes form one simple dependency cycle: each depends on exactly
\* one valid node and reaches every valid node.
SimpleCycle ==
    /\ ValidEntryIds # {}
    /\ \A b \in ValidEntryIds :
          /\ Cardinality(SourcesOf(b)) = 1
          /\ Upstream({b}) = ValidEntryIds

\* The smallest of the valid ids as strings.
SmallestId == CHOOSE r \in ValidEntryIds : \A a \in ValidEntryIds \ {r} : LexLess(r, a)

\* C23: in a graph whose valid nodes form one simple dependency cycle the
\* output respects every edge of the cycle except the one whose dependency
\* is the smallest id r, and r is emitted last.
C23_CycleBrokenAtSmallest ==
    (pc = "returned" /\ SimpleCycle) =>
        /\ ResultIds[Len(result)] = SmallestId
        /\ \A a, b \in ValidEntryIds :
              (DependsOn(b, a) /\ a # SmallestId) => Pos(a) < Pos(b)
        /\ \A b \in ValidEntryIds :
              DependsOn(b, SmallestId) => Pos(b) <= Pos(SmallestId)

\* The cycle of three nodes, 1 reading 2, 2 reading 3 and 3 reading 1, was
\* returned as 3, 2, 1.
C23_Witness ==
    /\ pc = "returned"
    /\ SimpleCycle
    /\ ResultIds = <<Str(3), Str(2), Str(1)>>
    /\ DependsOn(Str(3), Str(1))

\* C24: at every step the in-progress set and the finalized set are
\* disjoint, the in-progress set is the set of nodes on the recursion path,
\* and the ids of the output are the finalized set; at a return on the normal
\* path the in-progress set is empty and the finalized set is the set of
\* valid node ids.
C24_TraversalSets ==
    /\ temp_visited \cap visited = {}
    /\ temp_visited = {stack[i].node_id : i \in 1..Len(stack)}
    /\ {sorted_nodes[i].nodeId : i \in 1..Len(sorted_nodes)} = visited
    /\ (pc = "returned" /\ ~failed) =>
          /\ temp_visited = {}
          /\ visited = ValidEntryIds
          /\ Range(ResultIds) = visited

\* A visit two calls deep after another node was finalized.
C24_Witness ==
    /\ pc = "visit"
    /\ Len(stack) = 2
    /\ Cardinality(temp_visited) = 2
    /\ visited # {}

\* No valid entry has an input that is a list of two or more elements.
NoReferences ==
    \A i \in 1..Len(workflow.entries) :
        LET v == workflow.entries[i].val
        IN (v.isDict /\ v.hasClass) =>
              \A k \in 1..Len(v.inputs.items) :
                  ~(v.inputs.items[k].isList /\ Len(v.inputs.items[k].items) >= 2)

\* The ids of s ascend in the order of strings.
Ascending(s) == \A i, j \in 1..Len(s) : i < j => LexLess(s[i], s[j])

\* C25 as stated: for a graph with no references at all the output is the
\* valid ids in ascending string order, whatever the insertion order.
C25_AsClaimed ==
    (pc = "returned" /\ NoReferences) =>
        Range(ResultIds) = ValidEntryIds /\ Ascending(ResultIds)

\* C25: for a graph with no references at all on which sort returns on the
\* normal path, the output is the valid ids in ascending string order ("10"
\* and "11" before "2"), whatever the insertion order.
C25_AscendingOnNormalPath ==
    (pc = "returned" /\ ~failed /\ NoReferences) =>
        /\ Range(ResultIds) = ValidEntryIds
        /\ Ascending(ResultIds)
        /\ ValidEntryIds = {Str(2), Str(10), Str(11)} =>
              ResultIds = <<Str(10), Str(11), Str(2)>>

\* The graph inserted as 11, 2, 10 was returned as 10, 11, 2.
C25_Witness ==
    /\ pc = "returned"
    /\ ~failed
    /\ NoReferences
    /\ KeyOrder(workflow) = <<Str(11), Str(2), Str(10)>>
    /\ ResultIds = <<Str(10), Str(11), Str(2)>>

\* The inputs of node description v that are lists of two or more elements
\* whose first element names a key of the graph, in the order of the inputs
\* mapping, and the ids they name.
RefInputsOf(v) ==
    SelectSeq(v.inputs.items,
              LAMBDA x : x.isList /\ Len(x.items) >= 2
                           /\ StrOf(x.items[1]) \in Keys(workflow))
RefSeq(v) == [k \in 1..Len(RefInputsOf(v)) |-> StrOf(RefInputsOf(v)[k].items[1])]

\* Where the body of visit_node ran for node a, among the bodies that ran.
Pre(a) == CHOOSE i \in 1..Len(body_log) : body_log[i] = a

\* Node x was finalized before the visit of node b began.
FinalizedBefore(x, b) == Pre(x) < Pre(b) /\ Pos(x) < Pos(b)

\* Neither of x and y depends on the other, directly or transitively.
Independent(x, y) == x \notin Upstream({y}) /\ y \notin Upstream({x})

\* The first place of id x in the sequence of ids d.
FirstAt(d, x) == CHOOSE k \in 1..Len(d) : d[k] = x /\ \A j \in 1..(k - 1) : d[j] # x

DependencyIds(i) == Range(result[i].dependencies)

\* C27 as stated: every id in the dependency list of a returned node is the
\* id of a node of the output.
C27_AsClaimed ==
    pc = "returned" =>
        \A i \in 1..Len(result) : DependencyIds(i) \subseteq Range(ResultIds)

\* C27: every id in the dependency list of a returned node is a key of the
\* graph; it is the id of a node of the output exactly when its entry is a
\* valid node description, and a key whose entry is not one is recorded as a
\* dependency all the same.
C27_DependenciesAreKeys ==
    pc = "returned" =>
        /\ \A i \in 1..Len(result) :
              /\ DependencyIds(i) \subseteq Keys(workflow)
              /\ \A a \in DependencyIds(i) :
                    a \in Range(ResultIds) <=> a \in ValidEntryIds
        /\ ~failed =>
              \A i \in 1..Len(result) :
                  DependencyIds(i) =
                      RefSourcesOf(Lookup(workflow, result[i].nodeId))
                          \cap Keys(workflow)

\* A returned node lists a key of the graph whose entry is not a valid node
\* description.
C27_Witness ==
    /\ pc = "returned"
    /\ ~failed
    /\ \E i \in 1..Len(result) :
          \E a \in DependencyIds(i) :
              a \in Keys(workflow) /\ a \notin ValidEntryIds /\ a \notin Range(ResultIds)

\* The counter stays between 0 and one past the limit.
AttemptsInRange ==
    /\ 0 <= reconnect_attempts
    /\ reconnect_attempts <= max_reconnect_attempts + 1

\* With running True at the head of the listener loop the counter is within
\* the limit.
WithinLimitAtLoopHead ==
    (mon_pc = "loop" /\ running) => reconnect_attempts <= max_reconnect_attempts

\* After a successful connect_websocket, while the messages are iterated, the
\* counter is 0.
ZeroWhileConnected == mon_pc = "listen" => reconnect_attempts = 0

\* running turns False in the monitoring task only in the handle_reconnect
\* that takes the counter from the limit to one past it; otherwise it is the
\* signal handler or stop_monitoring that clears it.
StopsOnlyPastLimit ==
    (running /\ ~running') =>
        \/ (~shutdown_event /\ shutdown_event')
        \/ (main_pc = "stopping" /\ main_pc' = "done")
        \/ /\ mon_pc = "reconnect"
           /\ reconnect_attempts = max_reconnect_attempts
           /\ reconnect_attempts' = max_reconnect_attempts + 1

\* The handle_reconnect called for a connection that had succeeded and then
\* dropped finds the counter at 0, below the limit, and so does not stop the
\* monitor.
DropFindsZero ==
    (mon_pc = "listen" /\ mon_pc' = "reconnect") =>
        /\ reconnect_attempts' = 0
        /\ reconnect_attempts' + 1 <= max_reconnect_attempts

\* The counter changes by a reset to 0 or by one more failure.
CountsOneByOne ==
    reconnect_attempts' # reconnect_attempts =>
        \/ reconnect_attempts' = 0 /\ mon_pc' = "listen"
        \/ reconnect_attempts' = reconnect_attempts + 1 /\ mon_pc = "reconnect"

\* C21: reconnect_attempts counts consecutive failures only: a successful
\* connect resets it to 0, it stays within 0..max_reconnect_attempts + 1, it
\* is at most max_reconnect_attempts when running is True at the head of the
\* loop, and a connection that succeeds and then drops never stops the
\* monitor.
C21_ConsecutiveFailuresOnly ==
    /\ []AttemptsInRange
    /\ []WithinLimitAtLoopHead
    /\ []ZeroWhileConnected
    /\ [][StopsOnlyPastLimit]_vars
    /\ [][DropFindsZero]_vars
    /\ [][CountsOneByOne]_vars

\* With a limit of 1, a connection succeeded and then dropped, and the
\* monitor sleeps before its first reconnect attempt, still running.
C21_Witness ==
    /\ mon_pc = "sleep"
    /\ running
    /\ max_reconnect_attempts = 1
    /\ reconnect_attempts = 1
    /\ connect_log < 0
    /\ websocket = "none"

\* reconnect_delay * 2^(n-1), in seconds.
BaseSeconds(n) == reconnect_delay * (2 ^ (n - 1))

\* C22: the wait before reconnect attempt n, 1 <= n <= max_reconnect_attempts,
\* is min(base + jitter, 60) seconds with base = reconnect_delay * 2^(n-1)
\* and jitter between 0.1 * base and 0.5 * base; it never exceeds 60 seconds.
\* The delay is in tenths of a second.
C22_BackoffDelay ==
    (mon_pc = "sleep" /\ running) =>
        LET n == reconnect_attempts
            base == BaseSeconds(n)
        IN /\ 1 <= n
           /\ n <= max_reconnect_attempts
           /\ delay <= 600
           /\ delay < 600 => (11 * base <= delay /\ delay <= 15 * base)
           /\ delay = 600 => 15 * base >= 600
           /\ 11 * base >= 600 => delay = 600

\* The base doubled: before the second attempt with a reconnect_delay of 5
\* the monitor sleeps 13 seconds, 10 and three tenths of 10.
C22_Witness ==
    /\ mon_pc = "sleep"
    /\ running
    /\ reconnect_delay = 5
    /\ reconnect_attempts = 2
    /\ delay = 130

\* The cap applied: before the second attempt with a reconnect_delay of 30
\* the monitor sleeps 60 seconds.
C22_WitnessCapped ==
    /\ mon_pc = "sleep"
    /\ reconnect_delay = 30
    /\ reconnect_attempts = 2
    /\ delay = 600

\* C29: publish_event never raises and returns True exactly when put_events
\* was called and reported no failed entry; without a client it returns
\* False and put_events is not called; when put_events raises or reports
\* failed entries it returns False.
C29_PublishEventResult ==
    \A i \in 1..Len(events) :
        /\ events[i].returned \in {"True", "False"}
        /\ events[i].returned = "True" <=> events[i].put = "ok"
        /\ ~eventbridge => (events[i].put = "not called" /\ events[i].returned = "False")
        /\ events[i].put \in {"raised", "failed"} => events[i].returned = "False"
        /\ events[i].put = "not called" => ~eventbridge

\* One message made two calls of publish_event with a client: put_events
\* raised in the first, which returned False, and reported no failed entry
\* in the second, which returned True.
C29_Witness ==
    /\ eventbridge
    /\ Len(events) = 2
    /\ events[1].put = "raised"
    /\ events[1].returned = "False"
    /\ events[2].put = "ok"
    /\ events[2].returned = "True"

\* Without a client a handler called publish_event, which returned False
\* without calling put_events.
C29_WitnessNoClient ==
    /\ ~eventbridge
    /\ Len(events) = 1
    /\ events[1].put = "not called"
    /\ events[1].returned = "False"

\* The event types each message type can lead to: those its handler
\* publishes.
EventTypesOf(type) ==
    IF type = "status" THEN {"Queue Status Updated"}
    ELSE IF type = "execution_start" THEN {"Job Started"}
    ELSE IF type = "progress_state" THEN {"Node Progress Update"}
    ELSE IF type = "executing" THEN {"Node Executing"}
    ELSE IF type = "executed" THEN {"Images Generated", "Node Executed"}
    ELSE IF type = "execution_error" THEN {"Job Failed"}
    ELSE {}

\* Message m is no JSON object, or of a type without a handler.
Unrouted(m) ==
    \/ m.parse # "object"
    \/ m.type \notin {"status", "execution_start", "progress_state", "executing",
                     "executed", "execution_error"}

\* What was published for the message handled last comes from the handler of
\* its type, and nothing was published for a message without a handler.
RoutedByType ==
    JustHandled =>
        /\ \A i \in 1..Len(events) : events[i].type \in EventTypesOf(message.type)
        /\ Unrouted(message) => events = <<>>

\* The step that handles a message: the listener stays in its iteration (no
\* exception leaves handle_websocket_message) and running, websocket and
\* reconnect_attempts are left as they were.
HandlingKeepsState ==
    (mon_pc = "listen" /\ (message' # message \/ events' # events)) =>
        /\ mon_pc' = "listen"
        /\ UNCHANGED <<running, websocket, reconnect_attempts>>
        /\ Unrouted(message') => events' = <<>>

\* C28: handle_websocket_message routes a message by its type to one handler
\* and never raises; a message that is not valid JSON, a message of an
\* unknown type ('progress' too) and an execution_cached message publish no
\* event and leave running, websocket and reconnect_attempts unchanged.
C28_RoutingNeverRaises ==
    /\ []RoutedByType
    /\ [][HandlingKeepsState]_vars

\* With a client, a 'progress' message was handled after the startup event
\* had been published: nothing was published for it.
C28_Witness ==
    /\ JustHandled
    /\ eventbridge
    /\ running
    /\ websocket = "open"
    /\ message.parse = "object"
    /\ message.type = "progress"
    /\ events = <<>>

\* A message that is not valid JSON was handled and nothing was published.
C28_WitnessInvalid ==
    /\ JustHandled
    /\ eventbridge
    /\ message.parse = "invalid"
    /\ events = <<>>

\* C30: an execution_start, executing, executed, progress_state or
\* execution_error message whose data has no prompt_id, or an empty one,
\* publishes no event, and so does a progress_state message whose nodes
\* object is empty.
C30_NoPromptNoEvent ==
    (JustHandled /\ message.parse = "object") =>
        /\ ( /\ message.type \in {"execution_start", "executing", "executed",
                                   "progress_state", "execution_error"}
              /\ message.data.prompt_id \in {None, ""} )
           => events = <<>>
        /\ (message.type = "progress_state" /\ message.data.nodes = <<>>)
           => events = <<>>

\* A progress_state message with two well-formed nodes and an empty
\* prompt_id was handled with a client, and nothing was published.
C30_Witness ==
    /\ JustHandled
    /\ eventbridge
    /\ message.type = "progress_state"
    /\ message.data.prompt_id = ""
    /\ message.data.nodes = <<"ok", "ok">>
    /\ events = <<>>

\* A progress_state message with a prompt_id and no nodes was handled with a
\* client, and nothing was published.
C30_WitnessNoNodes ==
    /\ JustHandled
    /\ eventbridge
    /\ message.type = "progress_state"
    /\ message.data.prompt_id = "p1"
    /\ message.data.nodes = <<>>
    /\ events = <<>>

\* C31: an 'executed' message with a prompt_id results in exactly one call
\* of publish_event: 'Images Generated' when its output has a non-empty
\* images list, 'Node Executed' otherwise.
C31_ExactlyOneEvent ==
    (JustHandled /\ message.parse = "object" /\ message.type = "executed"
        /\ ~Falsy(message.data.prompt_id)) =>
        /\ Len(events) = 1
        /\ events[1].promptId = message.data.prompt_id
        /\ events[1].type = IF message.data.nested = "dict" /\ message.data.images
                            THEN "Images Generated"
                            ELSE "Node Executed"

\* A step taken with running False: running stays False, no message is
\* handled (only the startup and the shutdown event are published), the
\* listener leaves its loop head only by returning, and
\* handle_reconnect returns to the loop with the counter as it was and
\* without a sleep.
StoppedStep ==
    ~running =>
        /\ ~running'
        /\ message' = message
        /\ (events' # events => (mon_pc = "start" \/ main_pc = "stopping"))
        /\ (mon_pc = "loop" => mon_pc' \in {"loop", "exited", "cancelled"})
        /\ (websocket # "open" => websocket' # "open")
        /\ connect_log' = connect_log
        /\ (mon_pc = "reconnect" => mon_pc' \in {"reconnect", "loop", "cancelled"})
        /\ (mon_pc = "listen" => mon_pc' \in {"listen", "loop", "reconnect", "cancelled"})
        /\ (mon_pc # "sleep" => (mon_pc' # "sleep" /\ delay' = delay))
        /\ (mon_pc # "sleep" => reconnect_attempts' = reconnect_attempts)

\* C32: once running is False the listener handles no further message and
\* starts no connection attempt, and handle_reconnect returns at once
\* without incrementing reconnect_attempts and without sleeping.
C32_NothingAfterStop == [][StoppedStep]_vars

\* A connection had succeeded; after the signal it was lost, handle_reconnect
\* was called and returned with the counter still 0, and the listener
\* returned.
C32_Witness ==
    /\ mon_pc = "exited"
    /\ main_pc = "wait"
    /\ shutdown_event
    /\ ~running
    /\ websocket = "none"
    /\ connect_log < 0
    /\ reconnect_attempts = 0

\* The one call of publish_event with this event type, in `events`.
OnlyEvent(type) == Len(events) = 1 /\ events[1].type = type

\* A message is handled only when start_monitoring is past its startup
\* event, which it publishes when there is a client.
InitializedFirst ==
    /\ (message' # message) => mon_pc \notin {"start", "idle"}
    /\ (mon_pc = "start" /\ mon_pc' = "loop" /\ eventbridge) =>
          (Len(events') = 1 /\ events'[1].type = "Monitor Initialized")
    /\ (mon_pc # "start" /\ Len(events') >= 1 /\ events' # events) =>
          \A i \in 1..Len(events') : events'[i].type # "Monitor Initialized"

\* stop_monitoring runs when the monitoring task has returned or has been
\* cancelled, it publishes the shutdown event when there is a client, and
\* after it nothing is handled, published or stopped again.
StoppedLast ==
    /\ (main_pc = "stopping" /\ main_pc' # "stopping") =>
          /\ mon_pc \in {"exited", "cancelled"}
          /\ main_pc' = "done"
          /\ ~running'
          /\ eventbridge => (Len(events') = 1 /\ events'[1].type = "Monitor Stopped")
    /\ (main_pc' = "stopping" /\ main_pc # "stopping") => main_pc = "wait"
    /\ main_pc = "done" =>
          /\ main_pc' = "done"
          /\ events' = events
          /\ message' = message
          /\ UNCHANGED mon_pc

\* At the end of main with a client the last call of publish_event was the
\* one of the shutdown event.
StoppedIsLastEvent == (main_pc = "done" /\ eventbridge) => OnlyEvent("Monitor Stopped")

\* C33: 'Monitor Initialized' is published before any message is handled;
\* stop_monitoring runs once, after the monitoring task has returned or
\* been cancelled, whether the run ends by a signal or by exhausted
\* reconnect attempts, and it does run in every run that ends; 'Monitor
\* Stopped' is the last event published.
C33_StartupFirstShutdownLast ==
    /\ [][InitializedFirst]_vars
    /\ [][StoppedLast]_vars
    /\ []StoppedIsLastEvent
    /\ (shutdown_event \/ mon_pc = "exited") ~> (main_pc = "done")

\* A run that handled a message and was ended by a signal: the monitoring
\* task was cancelled and the shutdown event was published by
\* stop_monitoring.
C33_Witness ==
    /\ main_pc = "done"
    /\ mon_pc = "cancelled"
    /\ shutdown_event
    /\ eventbridge
    /\ message # NoMessage
    /\ OnlyEvent("Monitor Stopped")

\* A run ended by exhausted reconnect attempts, without a signal.
C33_WitnessExhausted ==
    /\ main_pc = "done"
    /\ mon_pc = "exited"
    /\ ~shutdown_event
    /\ reconnect_attempts = max_reconnect_attempts + 1
    /\ eventbridge
    /\ OnlyEvent("Monitor Stopped")

\* The decimal digits of a natural number, as character codes.
RECURSIVE Digits(_)
Digits(n) == IF n < 10 THEN <<48 + n>> ELSE Digits(n \div 10) \o <<48 + (n % 10)>>

\* The integers that are the first element of a list input of two or more
\* elements of node description v.
IntSourcesOf(v) ==
    {x.items[1].n :
        x \in {y \in Range(v.inputs.items) :
                  y.isList /\ Len(y.items) >= 2 /\ ~y.items[1].isStr}}

\* C34: on a normal return a reference whose source id is an integer n is
\* recorded as a dependency on the key that is the decimal string of n when
\* the graph has that key, the node of that key comes first in the output
\* unless the two lie on a cycle, and every recorded dependency id is a
\* string.
C34_IntegerSourceAsString ==
    (pc = "returned" /\ ~failed) =>
        \A i \in 1..Len(result) :
            /\ \A n \in IntSourcesOf(Lookup(workflow, result[i].nodeId)) :
                  Digits(n) \in Keys(workflow) =>
                      /\ Digits(n) \in DependencyIds(i)
                      /\ ( /\ Digits(n) \in ValidEntryIds
                            /\ result[i].nodeId \notin Upstream({Digits(n)}) )
                         => Pos(Digits(n)) < i
            /\ \A d \in DependencyIds(i) : d \in Seq(48..57)

\* Node 1, inserted first, reads [2, 0] with the integer 2: it was returned
\* after node 2 with the dependency "2".
C34_Witness ==
    /\ pc = "returned"
    /\ ~failed
    /\ KeyOrder(workflow) = <<Str(1), Str(2)>>
    /\ ValidEntryIds = {Str(1), Str(2)}
    /\ IntSourcesOf(Lookup(workflow, Str(1))) = {2}
    /\ ResultIds = <<Str(2), Str(1)>>
    /\ result[2].dependencies = <<Str(2)>>

\* C35: send returns True whenever the PUT returned a response, whatever
\* its status code, and returns False, without raising, when the request
\* raised; the body carries the given Status, and PhysicalResourceId and
\* Reason are derived from context.log_stream_name when they are not
\* supplied.
C35_SendResult ==
    /\ response.kind = "response" => (send_pc = "returned" /\ send_result = TRUE)
    /\ response.kind = "raised" => (send_pc = "returned" /\ send_result = FALSE)
    /\ send_pc = "raised" => response.kind = "none"
    /\ send_pc \in {"put", "returned"} =>
          /\ responseBody.Status = send_args.responseStatus
          /\ send_args.physicalResourceId = None =>
                responseBody.PhysicalResourceId = send_args.log_stream_name
          /\ send_args.physicalResourceId = "resource-1" =>
                responseBody.PhysicalResourceId = "resource-1"
          /\ send_args.reason = None =>
                ( /\ Len(responseBody.Reason) = 2
                  /\ responseBody.Reason[2] = send_args.log_stream_name )
          /\ send_args.reason = "why" => responseBody.Reason = <<"why">>

\* A FAILED response without reason and physical id was answered with status
\* 500 and send returned True.
C35_Witness ==
    /\ send_pc = "returned"
    /\ send_args.responseStatus = FAILED
    /\ send_args.reason = None
    /\ send_args.physicalResourceId = None
    /\ response = HttpResponse(500)
    /\ send_result = TRUE
    /\ responseBody.PhysicalResourceId = "stream-b"

\* The request raised and send returned False.
C35_WitnessRaised ==
    /\ send_pc = "returned"
    /\ response = HttpRaised
    /\ send_result = FALSE
    /\ send_args.physicalResourceId = "resource-1"

====
